---------------------------- MODULE Spec2Model ----------------------------
(***************************************************************************)
(* A model of the chat application's transactional data layer              *)
(* (src/app/models.py, src/app/streaming.py), of the connection pool it    *)
(* leases from (src/app/pool.py) and of the request handlers that call it  *)
(* (src/app/main.py).                                                      *)
(*                                                                         *)
(* Every data-layer call is a process: it is called, waits for a pool      *)
(* lease, runs its SQL statements one per step (each `await` is a step),   *)
(* commits, releases the lease and returns.  The store is PostgreSQL:      *)
(* READ COMMITTED by default (every statement reads the latest committed   *)
(* rows and the transaction's own writes), row locks taken by UPDATE,      *)
(* DELETE and by foreign-key checks and held until the transaction ends,   *)
(* ON DELETE CASCADE from conversations to messages, now() = the start     *)
(* time of the transaction.                                                *)
(***************************************************************************)
EXTENDS Integers, Sequences, FiniteSets

(* ------------------------------ bounds -------------------------------- *)

\* Concurrent data-layer calls in the accounting and broadcast scenarios.
NumOps == 2

\* Conversations that exist or have existed.
NumConvs == 2

\* The pool's max_size.  asyncpg's default is 10; the model keeps it small
\* and lets one more call than that compete for it in the pool scenario.
PoolMax == 2

\* Canned fragments the streaming simulator samples from (14 in the code).
NumFragments == 2

\* Rows of the users table.
NumUsers == 2

\* Attempts of one long poll (30 in the code: `for _ in range(30)`).
PollAttempts == 2

\* Attempts of the startup health check (60 in the code: `range(60)`).
HealthAttempts == 2

\* Broadcasts the load generator's broadcaster gets through.
MaxBroadcasts == 2

\* Parallel writes per burst (the environment's BURST_CONCURRENCY).
BURST_CONCURRENCY == 2

\* add_message requests of one burst user under way at a time.
MaxInFlight == 3

(* --------------------------- program constants ------------------------ *)

\* asyncpg.create_pool(dsn, min_size=2)
min_size == 2

\* random.randint(5, len(RESPONSE_FRAGMENTS))
MIN_CHUNKS == 5

\* len(chunk.split()) of each entry of RESPONSE_FRAGMENTS, in order.
RESPONSE_FRAGMENTS == <<4, 5, 4, 6, 5, 3, 5, 5, 3, 2, 5, 6, 6, 8>>

\* Every conversation is created for DEFAULT_USER_ID (api_create_conversation).
DEFAULT_USER_ID == 1

\* token_count values a request may carry: AddMessageRequest.token_count is a
\* plain int, so the service accepts negative values as well.
TokenCounts == {-1, 1, 2}

\* token_count of the one message a conversation may hold initially.
InitTokens == {2}

Ops == 1 .. NumOps
Streamers == 1 .. (PoolMax + 1)
AllOps == 1 .. (PoolMax + 2)
Convs == 1 .. NumConvs
ConnsOneMore == 1 .. (PoolMax + 1)

Conns == 1 .. PoolMax
Users == 1 .. NumUsers

(* ------------------------------- state -------------------------------- *)

VARIABLES
    pc,             \* pc[o]: where call o stands
    op,             \* op[o]: the call's name and arguments
    result,         \* result[o]: what the call returned or raised
    lease,          \* lease[o]: the pooled connection o holds, 0 = none
    waiters,        \* calls blocked in pool.acquire(): the queue's getters
    connOpen,       \* pooled connections that are connected
    conversations,  \* ids of the committed conversation rows
    message_count,  \* message_count[c] of the committed conversation rows
    messages,       \* messages[c]: committed message rows of conversation c
    token_usage,    \* committed users.token_usage of DEFAULT_USER_ID
    notifications,  \* committed notification rows
    rowLocks,       \* rowLocks[o]: row locks held by o's open transaction
    tx,             \* tx[o]: uncommitted writes and local variables of o
    now,            \* the store's clock (ticks at every BEGIN)
    hist,           \* history: facts about the run the claims speak about
    harness         \* the load generator: its startup check and its tasks

vars == <<pc, op, result, lease, waiters, connOpen, conversations,
          message_count, messages, token_usage, notifications, rowLocks, tx,
          now, hist, harness>>

poolVars == <<lease, waiters, connOpen>>
storeVars == <<conversations, message_count, messages, token_usage,
               notifications>>

(* ------------------------------ helpers ------------------------------- *)

RECURSIVE SumSeq(_)
SumSeq(s) == IF s = <<>> THEN 0 ELSE Head(s) + SumSeq(Tail(s))

RECURSIVE SumTokens(_)
\* SELECT COALESCE(SUM(token_count), 0) over a sequence of message rows
SumTokens(rows) ==
    IF rows = <<>> THEN 0 ELSE Head(rows).token_count + SumTokens(Tail(rows))

RECURSIVE SumOver(_, _)
SumOver(f, S) ==
    IF S = {} THEN 0
    ELSE LET x == CHOOSE y \in S : TRUE IN f[x] + SumOver(f, S \ {x})

Max(a, b) == IF a >= b THEN a ELSE b
Min(a, b) == IF a <= b THEN a ELSE b

\* tx[o]: the transaction's uncommitted writes (inserted, count, deleted,
\* usage, notifs) and the function's local variables (current, total_tokens,
\* chunks, users, unread, rows, i, attempts, returned, msgs); begins counts the
\* transactions the call began, start and end are their first and last instant.
\* A finished call keeps its locals, its writes are cleared.  transitioned
\* records how many rows the call's UPDATEs changed from unread to read.
NoTx == [start |-> 0, open |-> FALSE, begins |-> 0, inserted |-> <<>>,
         count |-> <<>>, deleted |-> FALSE, usage |-> <<>>, notifs |-> {},
         current |-> <<>>, total_tokens |-> 0, chunks |-> 0, removed |-> <<>>,
         users |-> <<>>, unread |-> <<>>, rows |-> {}, i |-> 0,
         attempts |-> 0, returned |-> 0, end |-> 0, msgs |-> <<>>,
         transitioned |-> 0, notifs_read |-> <<>>, results |-> <<>>]

NoOp == [name |-> "none", conv |-> 0, token_count |-> 0, selected |-> <<>>,
         user |-> 0, since |-> 0, type |-> "none", payload |-> <<>>]


(* ----------------------------- row locks ------------------------------ *)

\* PostgreSQL row-lock modes: a foreign-key check takes FOR KEY SHARE on the
\* referenced row, an UPDATE of non-key columns FOR NO KEY UPDATE, a DELETE
\* FOR UPDATE.
Conflicts(m1, m2) ==
    \/ m1 = "UPDATE" \/ m2 = "UPDATE"
    \/ (m1 = "NO KEY UPDATE" /\ m2 = "NO KEY UPDATE")

\* Call o may take lock `mode` on `row`: no other open transaction holds a
\* conflicting lock on it.  A blocked statement simply is not enabled.
CanLock(o, row, mode) ==
    \A p \in AllOps \ {o} : \A l \in rowLocks[p] :
        l[1] = row => ~Conflicts(l[2], mode)

ConvRow(c) == <<"conversations", c>>
UserRow(u) == <<"users", u>>

(* ------------------------------- pool --------------------------------- *)

LeasedConns == {lease[o] : o \in AllOps} \ {0}
FreeConns == Conns \ LeasedConns

\* Pool.get_size() and Pool.get_idle_size() as /health and /metrics read them
PoolSize == Cardinality(connOpen)
PoolIdle == Cardinality(connOpen \ LeasedConns)

\* The connection pool.acquire() hands out: an idle connected one if there
\* is one, else a holder that connects now.
PickConnFirst == CHOOSE c \in Conns : \A d \in Conns : c <= d

PickConn ==
    IF (connOpen \cap FreeConns) # {}
    THEN CHOOSE c \in connOpen \cap FreeConns :
             \A d \in connOpen \cap FreeConns : c <= d
    ELSE CHOOSE c \in FreeConns : \A d \in FreeConns : c <= d

\* The first statement of each data-layer function.
FirstStep(name) ==
    CASE name = "add_message" -> "add_insert"
      [] name = "delete_conversation" -> "del_sum"
      [] name = "stream_response" -> "st_insert"
      [] name = "broadcast_notification" -> "bc_users"
      [] name = "broadcast_notification_serializable" -> "bc_users"
      [] name = "mark_all_read" -> "mr_select"
      [] name = "poll_notifications" -> "poll_begin"
      [] name = "get_messages" -> "gm_query"
      [] name = "get_unread_count" -> "uc_query"
      [] name = "list_notifications" -> "ln_select"

\* asyncpg.create_pool() keeps the pool's connection holders in an asyncio
\* queue and sets no acquire timeout.  pool.acquire() is `await queue.get()`:
\* the caller takes a holder when the queue is not empty, whoever else is
\* waiting; else it joins the queue's getters and sleeps until woken.
MayAcquire(o) == FreeConns # {}

\* The caller has its lease and enters the `async with` block.
Granted(o, name) ==
    /\ lease' = [lease EXCEPT ![o] = PickConn]
    /\ connOpen' = connOpen \cup {PickConn}
    /\ waiters' = waiters
    /\ pc' = [pc EXCEPT ![o] = FirstStep(name)]

\* The caller finds the queue empty and sleeps behind the other getters.
Blocked(o) ==
    /\ waiters' = Append(waiters, o)
    /\ pc' = [pc EXCEPT ![o] = "waiting"]
    /\ UNCHANGED <<lease, connOpen>>

\* A getter that was woken runs again: queue.get() looks at the queue once
\* more and, if a later caller has taken the holder meanwhile, sleeps again,
\* now behind every other getter.
Acquire(o) ==
    /\ pc[o] = "woken"
    /\ IF MayAcquire(o) THEN Granted(o, op[o].name) ELSE Blocked(o)
    /\ UNCHANGED <<op, result, storeVars, rowLocks, tx, now, hist, harness>>

\* `async with pool.acquire()`: leaving the block, on return or on raise
LeaseKept(o) == lease

LeaseAfterExit(o) == [lease EXCEPT ![o] = 0]

\* The release puts the holder back into the queue, which wakes its first
\* getter; the call itself is over.
WaitersAfterExit == IF waiters = <<>> THEN waiters ELSE Tail(waiters)

PcAfterExit(o) ==
    [p \in AllOps |->
        IF p = o THEN "done"
        ELSE IF waiters # <<>> /\ p = Head(waiters) THEN "woken"
        ELSE pc[p]]

\* The data-layer function is called: it runs without suspending up to
\* `async with pool.acquire()`, where it gets its lease or blocks.
Call(o, args) ==
    /\ pc[o] = "idle"
    /\ op' = [op EXCEPT ![o] = args]
    /\ IF MayAcquire(o) THEN Granted(o, args.name) ELSE Blocked(o)
    /\ hist' = [hist EXCEPT !.overlapped =
                   @ \/ (\E p \in AllOps \ {o} : pc[p] \notin {"idle", "done"})]
    /\ UNCHANGED <<result, storeVars, rowLocks, tx, now, harness>>

(* ------------------------ notification payloads ----------------------- *)

\* payload JSONB: what a notification's payload holds under the key
\* "conversation_id".  NoPayload: no such key, or a value that is not
\* truthy; Malformed: a value that is no UUID; <<c>>: the UUID of
\* conversation c, where 0 is a well-formed UUID that names no conversation.
\* type TEXT NOT NULL: the type the load generator broadcasts with.
SystemType == "system"

NoPayload == <<>>
Malformed == <<-1>>
Payloads == {NoPayload, Malformed} \cup {<<c>> : c \in 0 .. NumConvs}

(* ----------------------- transactions in general ---------------------- *)

InFlight(o) == pc[o] \notin {"idle", "done"}

\* BEGIN: now() of the transaction is fixed here.
Begin(o) == [tx[o] EXCEPT !.start = now + 1, !.open = TRUE, !.begins = @ + 1]

\* The transaction is over: its pending writes are gone (applied or
\* discarded), the function's locals stay for the record.
Ended(t) == [t EXCEPT !.open = FALSE, !.inserted = <<>>, !.count = <<>>,
                      !.usage = <<>>, !.notifs = {}]

Exists(c) == c \in conversations

\* COMMIT of o's transaction: its writes become the committed rows.
Committed_conversations(o) ==
    IF tx[o].deleted THEN conversations \ {op[o].conv} ELSE conversations

\* messages.conversation_id REFERENCES conversations(id) ON DELETE CASCADE.
Committed_messages_NoCascade(o) ==
    IF tx[o].inserted = <<>> THEN messages
    ELSE [messages EXCEPT ![op[o].conv] = @ \o tx[o].inserted]

Committed_messages(o) ==
    IF tx[o].deleted THEN [messages EXCEPT ![op[o].conv] = <<>>]
    ELSE IF tx[o].inserted = <<>> THEN messages
    ELSE [messages EXCEPT ![op[o].conv] = @ \o tx[o].inserted]

\* A commit that left the conversation row's message_count as it was.
Committed_message_count_Unwritten(o) == message_count

Committed_message_count(o) ==
    IF tx[o].deleted \/ tx[o].count = <<>> THEN message_count
    ELSE [message_count EXCEPT ![op[o].conv] = tx[o].count[1]]

Committed_token_usage(o) ==
    IF tx[o].usage = <<>> THEN token_usage ELSE tx[o].usage[1]

\* Leaving `async with conn.transaction()` normally (COMMIT), then leaving
\* `async with pool.acquire()` and returning `ret`.
CommitAndReturn(o, ret) ==
    /\ conversations' = Committed_conversations(o)
    /\ messages' = Committed_messages(o)
    /\ message_count' = Committed_message_count(o)
    /\ token_usage' = Committed_token_usage(o)
    /\ notifications' = notifications \cup tx[o].notifs
    /\ rowLocks' = [rowLocks EXCEPT ![o] = {}]
    /\ tx' = [tx EXCEPT ![o] = Ended(
                 [@ EXCEPT !.removed = IF tx[o].deleted
                                       THEN <<SumTokens(messages[op[o].conv])>>
                                       ELSE <<>>,
                           !.end = now])]
    /\ lease' = LeaseAfterExit(o)
    /\ result' = [result EXCEPT ![o] = ret]
    /\ pc' = PcAfterExit(o)
    /\ waiters' = WaitersAfterExit
    /\ UNCHANGED <<op, connOpen, now, hist, harness>>

\* An exception leaves both blocks: ROLLBACK, release, raise `err`.  A
\* connection that was lost is closed by the pool instead of being reused.
RollbackAndRaise(o, err, lost) ==
    /\ connOpen' = IF lost THEN connOpen \ {lease[o]} ELSE connOpen
    /\ rowLocks' = [rowLocks EXCEPT ![o] = {}]
    /\ tx' = [tx EXCEPT ![o] = [NoTx EXCEPT !.begins = tx[o].begins]]
    /\ lease' = LeaseAfterExit(o)
    /\ result' = [result EXCEPT ![o] = err]
    /\ pc' = PcAfterExit(o)
    /\ waiters' = WaitersAfterExit
    /\ UNCHANGED <<op, storeVars, now, hist, harness>>

\* One statement of an open transaction: the store's rows are untouched
\* until COMMIT, the pool is untouched until the block is left.
Statement(o, next, newTx, newLocks) ==
    /\ pc' = [pc EXCEPT ![o] = next]
    /\ tx' = [tx EXCEPT ![o] = newTx]
    /\ rowLocks' = [rowLocks EXCEPT ![o] = @ \cup newLocks]
    /\ now' = IF newTx.start = tx[o].start THEN now ELSE now + 1
    /\ UNCHANGED <<op, result, poolVars, storeVars, hist, harness>>

(* ---------------------- models.add_message ---------------------------- *)

\* The INSERT as it would be without the foreign key: nothing is checked
\* and the conversation row is not locked.
add_message_insert_no_foreign_key(o) ==
    /\ pc[o] = "add_insert"
    /\ LET b == Begin(o) IN
          Statement(o, "add_count",
              [b EXCEPT !.inserted =
                  <<[token_count |-> op[o].token_count,
                     created_at |-> b.start]>>],
              {})

\* The INSERT as it would be in a function that wrote the user's row
\* first: the user row is locked before the conversation row.
add_message_insert_user_row_first(o) ==
    /\ pc[o] = "add_insert"
    /\ CanLock(o, ConvRow(op[o].conv), "KEY SHARE")
    /\ CanLock(o, UserRow(DEFAULT_USER_ID), "NO KEY UPDATE")
    /\ IF Exists(op[o].conv)
       THEN LET b == Begin(o) IN
               Statement(o, "add_count",
                   [b EXCEPT !.inserted =
                       <<[token_count |-> op[o].token_count,
                          created_at |-> b.start]>>],
                   {<<ConvRow(op[o].conv), "KEY SHARE">>,
                    <<UserRow(DEFAULT_USER_ID), "NO KEY UPDATE">>})
       ELSE RollbackAndRaise(o, "ForeignKeyViolationError", FALSE)

\* INSERT INTO messages ...: the foreign key is checked against the latest
\* committed conversation row, which the check locks FOR KEY SHARE.
add_message_insert(o) ==
    /\ pc[o] = "add_insert"
    /\ CanLock(o, ConvRow(op[o].conv), "KEY SHARE")
    /\ IF Exists(op[o].conv)
       THEN LET b == Begin(o) IN
               Statement(o, "add_count",
                   [b EXCEPT !.inserted =
                       <<[token_count |-> op[o].token_count,
                          created_at |-> b.start]>>],
                   {<<ConvRow(op[o].conv), "KEY SHARE">>})
       ELSE RollbackAndRaise(o, "ForeignKeyViolationError", FALSE)

\* UPDATE conversations SET message_count = message_count + 1: the store
\* takes the row lock, then computes from the latest committed row version.
IncrementedCountStale(c, by) == hist.initial_count[c] + by

IncrementedCountByOne(c, by) == message_count[c] + 1

IncrementedCount(c, by) == message_count[c] + by

add_message_count(o) ==
    /\ pc[o] = "add_count"
    /\ CanLock(o, ConvRow(op[o].conv), "NO KEY UPDATE")
    /\ Statement(o, "add_read",
           [tx[o] EXCEPT !.count = <<IncrementedCount(op[o].conv, 1)>>],
           {<<ConvRow(op[o].conv), "NO KEY UPDATE">>})

\* conv = SELECT user_id ...; current = SELECT token_usage FROM users ...
\* (conv is never None here: the transaction's own lock keeps the row)
add_message_read(o) ==
    /\ pc[o] = "add_read"
    /\ Statement(o, "add_write", [tx[o] EXCEPT !.current = <<token_usage>>], {})

\* UPDATE users SET token_usage = $1: (current or 0) + token_count
AddedUsageAtomic(current, token_count) == token_usage + token_count

AddedUsage(current, token_count) == current + token_count

\* The write as it would be under first-updater-wins: a write over a value
\* that is no longer the one read is refused.
add_message_write_first_updater_wins(o) ==
    /\ pc[o] = "add_write"
    /\ CanLock(o, UserRow(DEFAULT_USER_ID), "NO KEY UPDATE")
    /\ IF tx[o].current # <<token_usage>>
       THEN RollbackAndRaise(o, "SerializationError", FALSE)
       ELSE Statement(o, "add_commit",
                [tx[o] EXCEPT !.usage =
                    <<token_usage + op[o].token_count>>],
                {<<UserRow(DEFAULT_USER_ID), "NO KEY UPDATE">>})

add_message_write(o) ==
    /\ pc[o] = "add_write"
    /\ CanLock(o, UserRow(DEFAULT_USER_ID), "NO KEY UPDATE")
    /\ Statement(o, "add_commit",
           [tx[o] EXCEPT !.usage =
               <<AddedUsage(tx[o].current[1], op[o].token_count)>>],
           {<<UserRow(DEFAULT_USER_ID), "NO KEY UPDATE">>})

add_message_commit(o) ==
    /\ pc[o] = "add_commit"
    /\ CommitAndReturn(o, "ok")


(* ---------------------- models.delete_conversation -------------------- *)

\* total_tokens = SELECT COALESCE(SUM(token_count), 0) FROM messages ...
delete_conversation_sum(o) ==
    /\ pc[o] = "del_sum"
    /\ Statement(o, "del_conv",
           [Begin(o) EXCEPT !.total_tokens = SumTokens(messages[op[o].conv])],
           {})

\* conv = SELECT user_id FROM conversations ...; if not conv: return False
delete_conversation_conv(o) ==
    /\ pc[o] = "del_conv"
    /\ IF Exists(op[o].conv)
       THEN Statement(o, "del_delete", tx[o], {})
       ELSE CommitAndReturn(o, "false")

\* DELETE FROM conversations WHERE id = $1: waits for the row lock, then
\* deletes the row if it is still there (messages cascade); its result is
\* not looked at.
delete_conversation_delete(o) ==
    /\ pc[o] = "del_delete"
    /\ CanLock(o, ConvRow(op[o].conv), "UPDATE")
    /\ IF Exists(op[o].conv)
       THEN Statement(o, "del_read", [tx[o] EXCEPT !.deleted = TRUE],
                      {<<ConvRow(op[o].conv), "UPDATE">>})
       ELSE Statement(o, "del_read", tx[o], {})

\* current = SELECT token_usage FROM users ...
delete_conversation_read(o) ==
    /\ pc[o] = "del_read"
    /\ Statement(o, "del_write", [tx[o] EXCEPT !.current = <<token_usage>>], {})

\* new_usage = max(0, (current or 0) - total_tokens)
ReducedUsage(current, total_tokens) == Max(0, current - total_tokens)

delete_conversation_write(o) ==
    /\ pc[o] = "del_write"
    /\ CanLock(o, UserRow(DEFAULT_USER_ID), "NO KEY UPDATE")
    /\ Statement(o, "del_commit",
           [tx[o] EXCEPT !.usage =
               <<ReducedUsage(tx[o].current[1], tx[o].total_tokens)>>],
           {<<UserRow(DEFAULT_USER_ID), "NO KEY UPDATE">>})

delete_conversation_commit(o) ==
    /\ pc[o] = "del_commit"
    /\ CommitAndReturn(o, "true")

(* ---------------------- streaming.stream_response --------------------- *)

\* The fragments the model samples from, and how many it may sample:
\* num_chunks = random.randint(5, len(RESPONSE_FRAGMENTS)).
FragmentPool == 1 .. Min(NumFragments, Len(RESPONSE_FRAGMENTS))
ChunkCounts == Min(MIN_CHUNKS, Cardinality(FragmentPool)) .. Cardinality(FragmentPool)

\* selected = random.sample(RESPONSE_FRAGMENTS, num_chunks): the indices of
\* num_chunks distinct fragments.  The model lists them in ascending order:
\* the sampled order only decides the order of the text returned.
Samples == UNION {{s \in [1 .. n -> FragmentPool] :
                      \A i, j \in 1 .. n : i < j => s[i] < s[j]} : n \in ChunkCounts}

\* INSERT INTO messages (..., 'user', $2, $3)
stream_response_insert(o) ==
    /\ pc[o] = "st_insert"
    /\ CanLock(o, ConvRow(op[o].conv), "KEY SHARE")
    /\ IF Exists(op[o].conv)
       THEN LET b == Begin(o) IN
               Statement(o, "st_sleep",
                   [b EXCEPT !.inserted =
                       <<[token_count |-> op[o].token_count,
                          created_at |-> b.start]>>],
                   {<<ConvRow(op[o].conv), "KEY SHARE">>})
       ELSE RollbackAndRaise(o, "ForeignKeyViolationError", FALSE)

\* for chunk in selected: await asyncio.sleep(...); total_tokens += ...
stream_response_sleep_unleased(o) ==
    /\ pc[o] = "st_sleep"
    /\ tx[o].chunks < Len(op[o].selected)
    /\ pc' = [pc EXCEPT ![o] = "st_sleep"]
    /\ messages' = Committed_messages(o)
    /\ tx' = [tx EXCEPT ![o] = Ended([@ EXCEPT !.chunks = @ + 1])]
    /\ lease' = LeaseAfterExit(o)
    /\ rowLocks' = [rowLocks EXCEPT ![o] = {}]
    /\ UNCHANGED <<op, result, waiters, connOpen, conversations,
                   message_count, token_usage, notifications, now, hist, harness>>

stream_response_sleep(o) ==
    /\ pc[o] = "st_sleep"
    /\ tx[o].chunks < Len(op[o].selected)
    /\ Statement(o, "st_sleep",
           [tx[o] EXCEPT !.chunks = @ + 1,
                         !.total_tokens =
                             @ + RESPONSE_FRAGMENTS[op[o].selected[tx[o].chunks + 1]]],
           {})

\* INSERT INTO messages (..., 'assistant', $2, $3) and
\* UPDATE conversations SET message_count = message_count + 2
stream_response_assistant(o) ==
    /\ pc[o] = "st_sleep"
    /\ tx[o].chunks = Len(op[o].selected)
    /\ Statement(o, "st_count",
           [tx[o] EXCEPT !.inserted =
               Append(@, [token_count |-> tx[o].total_tokens,
                          created_at |-> tx[o].start])],
           {})

stream_response_count(o) ==
    /\ pc[o] = "st_count"
    /\ CanLock(o, ConvRow(op[o].conv), "NO KEY UPDATE")
    /\ Statement(o, "st_read",
           [tx[o] EXCEPT !.count = <<IncrementedCount(op[o].conv, 2)>>],
           {<<ConvRow(op[o].conv), "NO KEY UPDATE">>})

\* conv = SELECT user_id ...; current = SELECT token_usage FROM users ...
stream_response_read(o) ==
    /\ pc[o] = "st_read"
    /\ Statement(o, "st_write", [tx[o] EXCEPT !.current = <<token_usage>>], {})

\* total = user_token_count + total_tokens; UPDATE users SET token_usage = $1
stream_response_write(o) ==
    /\ pc[o] = "st_write"
    /\ CanLock(o, UserRow(DEFAULT_USER_ID), "NO KEY UPDATE")
    /\ Statement(o, "st_commit",
           [tx[o] EXCEPT !.usage =
               <<AddedUsage(tx[o].current[1],
                            op[o].token_count + tx[o].total_tokens)>>],
           {<<UserRow(DEFAULT_USER_ID), "NO KEY UPDATE">>})

stream_response_commit(o) ==
    /\ pc[o] = "st_commit"
    /\ CommitAndReturn(o, "ok")

(* ------- models.broadcast_notification, ..._serializable -------------- *)

Serializable(o) == op[o].name = "broadcast_notification_serializable"

\* The ids of a set of rows, in ascending order.
RECURSIVE Ascending(_)
Ascending(S) ==
    IF S = {} THEN <<>>
    ELSE LET m == CHOOSE x \in S : \A y \in S : x <= y
         IN  <<m>> \o Ascending(S \ {m})

\* A statement outside any transaction: it commits on its own.
Autocommit(o, next, newTx, newNotifications) ==
    /\ pc' = [pc EXCEPT ![o] = next]
    /\ tx' = [tx EXCEPT ![o] = newTx]
    /\ notifications' = newNotifications
    /\ UNCHANGED <<op, result, poolVars, conversations, message_count,
                   messages, token_usage, rowLocks, now, hist, harness>>

\* users = await conn.fetch("SELECT id FROM users"), before the transaction
broadcast_users(o) ==
    /\ pc[o] = "bc_users"
    /\ Autocommit(o, "bc_begin", [tx[o] EXCEPT !.users = Ascending(Users)],
                  notifications)

\* async with conn.transaction(...): BEGIN
broadcast_begin(o) ==
    /\ pc[o] = "bc_begin"
    /\ Statement(o, "bc_insert", [Begin(o) EXCEPT !.i = 0], {})

\* for user in users: INSERT INTO notifications (user_id, type, payload);
\* read defaults to false and created_at to now()
NotificationRow(o, u) ==
    [by |-> o, user |-> u, read |-> FALSE, created_at |-> tx[o].start,
     type |-> op[o].type, payload |-> op[o].payload]

broadcast_insert_autocommit(o) ==
    /\ pc[o] = "bc_insert"
    /\ tx[o].i < Len(tx[o].users)
    /\ Autocommit(o, "bc_insert", [tx[o] EXCEPT !.i = @ + 1],
           notifications \cup {NotificationRow(o, tx[o].users[tx[o].i + 1])})

broadcast_insert(o) ==
    /\ pc[o] = "bc_insert"
    /\ tx[o].i < Len(tx[o].users)
    /\ LET u == tx[o].users[tx[o].i + 1] IN
          /\ CanLock(o, UserRow(u), "KEY SHARE")
          /\ Statement(o, "bc_insert",
                 [tx[o] EXCEPT !.i = @ + 1,
                               !.notifs = @ \cup {NotificationRow(o, u)}],
                 {<<UserRow(u), "KEY SHARE">>})

\* leaving the transaction block: COMMIT; return len(users)
broadcast_commit(o) ==
    /\ pc[o] = "bc_insert"
    /\ tx[o].i = Len(tx[o].users)
    /\ tx' = [tx EXCEPT ![o] = Ended([@ EXCEPT !.returned = Len(tx[o].users),
                                               !.end = now])]
    /\ notifications' = notifications \cup tx[o].notifs
    /\ rowLocks' = [rowLocks EXCEPT ![o] = {}]
    /\ lease' = LeaseAfterExit(o)
    /\ result' = [result EXCEPT ![o] = "ok"]
    /\ pc' = PcAfterExit(o)
    /\ waiters' = WaitersAfterExit
    /\ UNCHANGED <<op, connOpen, conversations, message_count,
                   messages, token_usage, now, hist, harness>>

\* Two transactions were open at the same instant.
Concurrent(o, p) ==
    /\ tx[o].start > 0
    /\ tx[p].start > 0
    /\ (tx[p].open \/ tx[o].start <= tx[p].end)
    /\ (tx[o].open \/ tx[p].start <= tx[o].end)

\* A restart of the transaction in place of the raise (the code has none).
OnSerializationErrorRetry(o) ==
    /\ tx[o].begins < 2
    /\ pc' = [pc EXCEPT ![o] = "bc_begin"]
    /\ tx' = [tx EXCEPT ![o] = Ended(@)]
    /\ rowLocks' = [rowLocks EXCEPT ![o] = {}]
    /\ UNCHANGED <<op, result, poolVars, storeVars, now, hist, harness>>

\* No except clause and no loop surround the transaction block: the error
\* leaves it (ROLLBACK), leaves the acquire block and reaches the caller.
OnSerializationError(o) == RollbackAndRaise(o, "SerializationError", FALSE)

\* The store aborts a SERIALIZABLE transaction that ran concurrently with
\* another transaction; it may do so at any statement or at COMMIT.
SerializationFailure(o) ==
    /\ pc[o] = "bc_insert"
    /\ Serializable(o)
    /\ \E p \in AllOps \ {o} : Concurrent(o, p)
    /\ OnSerializationError(o)

(* ---------------------- models.mark_all_read --------------------------- *)

Unread(u) == {n \in notifications : n.user = u /\ ~n.read}

\* unread = SELECT id FROM notifications WHERE user_id = $1 AND NOT read
mark_all_read_select(o) ==
    /\ pc[o] = "mr_select"
    /\ Autocommit(o, "mr_update",
           [tx[o] EXCEPT !.unread = Ascending({n.by : n \in Unread(op[o].user)}),
                         !.i = 0],
           notifications)

\* for notif in unread: UPDATE notifications SET read = true WHERE id = $1
\* The UPDATE as it would be if it stamped the row it marks.
mark_all_read_update_stamping(o) ==
    /\ pc[o] = "mr_update"
    /\ tx[o].i < Len(tx[o].unread)
    /\ Autocommit(o, "mr_update",
           [tx[o] EXCEPT !.i = @ + 1],
           {IF n.user = op[o].user /\ n.by = tx[o].unread[tx[o].i + 1]
            THEN [n EXCEPT !.read = TRUE, !.created_at = now + 1]
            ELSE n : n \in notifications})

mark_all_read_update(o) ==
    /\ pc[o] = "mr_update"
    /\ tx[o].i < Len(tx[o].unread)
    /\ Autocommit(o, "mr_update",
           [tx[o] EXCEPT !.i = @ + 1,
                         !.transitioned =
                             @ + Cardinality({n \in Unread(op[o].user) :
                                     n.by = tx[o].unread[tx[o].i + 1]})],
           {IF n.user = op[o].user /\ n.by = tx[o].unread[tx[o].i + 1]
            THEN [n EXCEPT !.read = TRUE] ELSE n : n \in notifications})

\* A function that used no transaction block returns n.
ReturnFrom(o, t) ==
    /\ tx' = [tx EXCEPT ![o] = Ended(t)]
    /\ rowLocks' = [rowLocks EXCEPT ![o] = {}]
    /\ lease' = LeaseAfterExit(o)
    /\ result' = [result EXCEPT ![o] = "ok"]
    /\ pc' = PcAfterExit(o)
    /\ waiters' = WaitersAfterExit
    /\ UNCHANGED <<op, connOpen, storeVars, now, hist, harness>>

Return(o, n) == ReturnFrom(o, [tx[o] EXCEPT !.returned = n])

\* return len(unread)
mark_all_read_return(o) ==
    /\ pc[o] = "mr_update"
    /\ tx[o].i = Len(tx[o].unread)
    /\ Return(o, Len(tx[o].unread))

(* ---------------------- models.poll_notifications ---------------------- *)

\* SELECT * FROM notifications WHERE user_id = $1 AND created_at > $2
NewNotifications(u, since) ==
    {n \in notifications : n.user = u /\ n.created_at > since}

\* async with conn.transaction(): BEGIN
poll_notifications_begin(o) ==
    /\ pc[o] = "poll_begin"
    /\ Statement(o, "poll_query", [Begin(o) EXCEPT !.attempts = 0], {})

\* rows = await conn.fetch(...); if rows: return [dict(r) for r in rows]
poll_notifications_query(o) ==
    /\ pc[o] = "poll_query"
    /\ tx[o].attempts < PollAttempts
    /\ LET rows == NewNotifications(op[o].user, op[o].since) IN
          IF rows # {}
          THEN /\ tx' = [tx EXCEPT ![o] =
                            Ended([@ EXCEPT !.rows = rows,
                                            !.returned = Cardinality(rows),
                                            !.end = now])]
               /\ rowLocks' = [rowLocks EXCEPT ![o] = {}]
               /\ lease' = LeaseAfterExit(o)
               /\ result' = [result EXCEPT ![o] = "ok"]
               /\ pc' = PcAfterExit(o)
               /\ waiters' = WaitersAfterExit
               /\ UNCHANGED <<op, connOpen, storeVars, now, hist, harness>>
          ELSE Statement(o, "poll_sleep", tx[o], {})

\* await asyncio.sleep(1.0), holding the connection and the transaction
poll_notifications_sleep_unleased(o) ==
    /\ pc[o] = "poll_sleep"
    /\ pc' = [pc EXCEPT ![o] = "poll_query"]
    /\ tx' = [tx EXCEPT ![o] = Ended([@ EXCEPT !.attempts = @ + 1])]
    /\ lease' = LeaseAfterExit(o)
    /\ rowLocks' = [rowLocks EXCEPT ![o] = {}]
    /\ UNCHANGED <<op, result, waiters, connOpen, storeVars, now, hist, harness>>

poll_notifications_sleep_uncounted(o) ==
    /\ pc[o] = "poll_sleep"
    /\ Statement(o, "poll_query", tx[o], {})

poll_notifications_sleep(o) ==
    /\ pc[o] = "poll_sleep"
    /\ Statement(o, "poll_query", [tx[o] EXCEPT !.attempts = @ + 1], {})

\* the loop ran out: COMMIT; return []
poll_notifications_timeout(o) ==
    /\ pc[o] = "poll_query"
    /\ tx[o].attempts = PollAttempts
    /\ CommitAndReturn(o, "ok")

(* ------------- models.get_messages, models.get_unread_count ------------ *)

\* SELECT * FROM messages WHERE conversation_id = $1 ORDER BY created_at
\* (SELECT SUM(token_count) FROM messages WHERE conversation_id =
\*  m.conversation_id AND created_at <= m.created_at) AS running_total
running_total(msgs, m) ==
    SumTokens(SelectSeq(msgs, LAMBDA other : other.created_at <= m.created_at))

\* ORDER BY m.created_at ASC: the orders the store may return the rows in;
\* rows of equal created_at come in any order.
OrderByCreatedAt(msgs) ==
    {f \in [1 .. Len(msgs) -> 1 .. Len(msgs)] :
        /\ \A i, j \in 1 .. Len(msgs) : i # j => f[i] # f[j]
        /\ \A i, j \in 1 .. Len(msgs) :
               i < j => msgs[f[i]].created_at <= msgs[f[j]].created_at}

MessageRows(msgs, f) ==
    [k \in 1 .. Len(msgs) |->
        [token_count |-> msgs[f[k]].token_count,
         created_at |-> msgs[f[k]].created_at,
         running_total |-> running_total(msgs, msgs[f[k]])]]

get_messages(o) ==
    /\ pc[o] = "gm_query"
    /\ \E f \in OrderByCreatedAt(messages[op[o].conv]) :
          ReturnFrom(o, [tx[o] EXCEPT
              !.msgs = MessageRows(messages[op[o].conv], f),
              !.returned = Len(messages[op[o].conv])])

\* SELECT COUNT(*) FROM notifications WHERE user_id = $1 AND NOT read
get_unread_count(o) ==
    /\ pc[o] = "uc_query"
    /\ Return(o, Cardinality(Unread(op[o].user)))

(* ---------------------- models.list_notifications --------------------- *)

\* ORDER BY created_at DESC: the orders the store may return the user's
\* notifications in.
OrderByCreatedAtDesc(S) ==
    {q \in [1 .. Cardinality(S) -> S] :
        /\ \A i, j \in 1 .. Cardinality(S) : i # j => q[i] # q[j]
        /\ \A i, j \in 1 .. Cardinality(S) :
               i < j => q[i].created_at >= q[j].created_at}

\* notifs = SELECT * FROM notifications WHERE user_id = $1 ORDER BY ...
list_notifications_select(o) ==
    /\ pc[o] = "ln_select"
    /\ \E q \in OrderByCreatedAtDesc({n \in notifications :
                                          n.user = op[o].user}) :
          Autocommit(o, "ln_item",
              [tx[o] EXCEPT !.notifs_read = q, !.results = <<>>],
              notifications)

\* payload = json.loads(payload), {} when that fails;
\* source_conv = payload.get("conversation_id") if payload else None
source_conv(payload) == payload

\* uuid.UUID(source_conv) raises ValueError for a value that is no UUID.
RaisesValueError(v) == v = Malformed

\* row = SELECT title FROM conversations WHERE id = $1;
\* conv_title = row["title"] if row else None.  Conversation c's title is
\* written c.
conv_title(v) ==
    IF v = NoPayload \/ RaisesValueError(v) THEN <<>>
    ELSE IF Exists(v[1]) THEN <<v[1]>> ELSE <<>>

ResultRow(n, title) ==
    [by |-> n.by, user |-> n.user, read |-> n.read,
     created_at |-> n.created_at, type |-> n.type, payload |-> n.payload,
     conversation_title |-> title]

\* The lookup without its `try: ... except Exception: pass`.
list_notifications_item_uncaught(o) ==
    /\ pc[o] = "ln_item"
    /\ Len(tx[o].results) < Len(tx[o].notifs_read)
    /\ LET n == tx[o].notifs_read[Len(tx[o].results) + 1] IN
          IF source_conv(n.payload) # NoPayload
             /\ RaisesValueError(source_conv(n.payload))
          THEN RollbackAndRaise(o, "ValueError", FALSE)
          ELSE Autocommit(o, "ln_item",
                   [tx[o] EXCEPT !.results =
                       Append(@, ResultRow(n, conv_title(source_conv(n.payload))))],
                   notifications)

\* for n in notifs: look the title up when the payload references a
\* conversation, any exception of the lookup leaving the title None;
\* results.append({**dict(n), "conversation_title": conv_title})
list_notifications_item(o) ==
    /\ pc[o] = "ln_item"
    /\ Len(tx[o].results) < Len(tx[o].notifs_read)
    /\ LET n == tx[o].notifs_read[Len(tx[o].results) + 1] IN
          Autocommit(o, "ln_item",
              [tx[o] EXCEPT !.results =
                  Append(@, ResultRow(n, conv_title(source_conv(n.payload))))],
              notifications)

\* return results
list_notifications_return(o) ==
    /\ pc[o] = "ln_item"
    /\ Len(tx[o].results) = Len(tx[o].notifs_read)
    /\ Return(o, Len(tx[o].results))

(* ------------------------- failures of the store ---------------------- *)

\* The connection to the store is lost while call o holds it: the statement
\* in progress raises, the transaction is rolled back by the store.
TransportFailure(o) ==
    /\ lease[o] # 0
    /\ RollbackAndRaise(o, "ConnectionError", TRUE)

(* ------------------------------ handlers ------------------------------ *)

\* The status the HTTP handler answers with: api_add_message and
\* api_stream_message catch ForeignKeyViolationError (404) before Exception
\* (500); api_delete_conversation answers 404 when nothing was deleted; an
\* exception no handler catches is the framework's 500.
HttpStatusGeneric(o) ==
    IF result[o] = "none" THEN 0
    ELSE IF result[o] \in {"ok", "true"} THEN 200
    ELSE 500

HttpStatus(o) ==
    IF result[o] = "none" THEN 0
    ELSE IF result[o] \in {"ok", "true"} THEN 200
    ELSE IF /\ op[o].name \in {"add_message", "stream_response"}
            /\ result[o] = "ForeignKeyViolationError" THEN 404
    ELSE IF op[o].name = "delete_conversation" /\ result[o] = "false" THEN 404
    ELSE 500

(* ------------------------------ calls --------------------------------- *)

call_add_message(o) ==
    \E c \in Convs, t \in TokenCounts :
        Call(o, [NoOp EXCEPT !.name = "add_message", !.conv = c,
                             !.token_count = t])

call_delete_conversation(o) ==
    \E c \in Convs :
        Call(o, [NoOp EXCEPT !.name = "delete_conversation", !.conv = c])

call_stream_response(o) ==
    \E c \in Convs, t \in TokenCounts, s \in Samples :
        Call(o, [NoOp EXCEPT !.name = "stream_response", !.conv = c,
                             !.token_count = t, !.selected = s])

call_broadcast_notification(o) ==
    \E p \in Payloads :
        Call(o, [NoOp EXCEPT !.name = "broadcast_notification",
                             !.type = SystemType, !.payload = p])

call_broadcast_notification_serializable(o) ==
    \E p \in Payloads :
        Call(o, [NoOp EXCEPT !.name = "broadcast_notification_serializable",
                             !.type = SystemType, !.payload = p])

call_mark_all_read(o) ==
    \E u \in Users : Call(o, [NoOp EXCEPT !.name = "mark_all_read", !.user = u])

\* since: None (every row is newer) or the instant of an earlier poll
call_poll_notifications(o) ==
    \E u \in Users, since \in {0, now} :
        Call(o, [NoOp EXCEPT !.name = "poll_notifications", !.user = u,
                             !.since = since])

call_list_notifications(o) ==
    \E u \in Users :
        Call(o, [NoOp EXCEPT !.name = "list_notifications", !.user = u])

call_get_messages(o) ==
    \E c \in Convs : Call(o, [NoOp EXCEPT !.name = "get_messages", !.conv = c])

call_get_unread_count(o) ==
    \E u \in Users :
        Call(o, [NoOp EXCEPT !.name = "get_unread_count", !.user = u])

(* ------------------------ unread_count_middleware --------------------- *)

\* The HTTP requests under way, and the call slot in which the middleware
\* of request o runs its lookup.
Requests == 1 .. Min(NumOps, (PoolMax + 2) \div 2)
Lookup(o) == o + Cardinality(Requests)

\* response = await call_next(request), then for a path under /api/:
\* count = await get_unread_count(_pool, DEFAULT_USER_ID).  call_next
\* returns when the handler has returned or raised an HTTPException; an
\* exception the handler does not catch (api_delete_conversation and
\* api_get_messages have no try block) passes through the middleware.
unread_count_middleware(o) ==
    /\ pc[o] = "done"
    /\ ~(/\ op[o].name \in {"delete_conversation", "get_messages"}
         /\ result[o] \notin {"ok", "true", "false"})
    /\ Call(Lookup(o), [NoOp EXCEPT !.name = "get_unread_count",
                                    !.user = DEFAULT_USER_ID])

\* The response as it would be if the middleware had no try block: a
\* failed lookup becomes the request's error.
ResponseLookupUncaught(o) ==
    IF pc[Lookup(o)] = "done" /\ result[Lookup(o)] # "ok"
    THEN [status |-> 500, body |-> result[Lookup(o)], unread_count |-> <<>>]
    ELSE [status |-> HttpStatus(o), body |-> result[o],
          unread_count |-> IF pc[Lookup(o)] = "done"
                           THEN <<tx[Lookup(o)].returned>> ELSE <<>>]

\* The response the client gets: the handler's, with the header
\* X-Unread-Count when the lookup returned (`except Exception: pass`).
Response(o) ==
    [status |-> HttpStatus(o), body |-> result[o],
     unread_count |-> IF pc[Lookup(o)] = "done" /\ result[Lookup(o)] = "ok"
                      THEN <<tx[Lookup(o)].returned>> ELSE <<>>]

(* --------------------------- the load generator ----------------------- *)

\* What a request of the load generator ends with: a response with status
\* 200 or with another status, or an exception raised by the client:
\* httpx.TimeoutException, httpx.ConnectError, or any other Exception (a
\* read error, a response that does not parse).
Responses == {"200", "non200"}
Raised == {"TimeoutException", "ConnectError", "Exception"}

\* isinstance(exc, cls) for the classes above.
IsInstance(exc, cls) == cls = exc \/ cls = "Exception"

\* Except clauses that pass over a refused connection only.
ExceptClausesConnectErrorOnly(fn) == <<"ConnectError">>

\* The except clauses around the requests of each function.
ExceptClauses(fn) ==
    CASE fn = "wait_for_app" -> <<"ConnectError">>
      [] fn = "simulate_user" -> <<"TimeoutException", "ConnectError", "Exception">>
      [] fn = "simulate_user_burst" -> <<"TimeoutException", "ConnectError", "Exception">>
      [] fn = "broadcast_loop" -> <<"TimeoutException", "Exception">>
      [] fn = "poll_loop" -> <<"TimeoutException", "ConnectError", "Exception">>

Caught(fn, exc) ==
    \E i \in 1 .. Len(ExceptClauses(fn)) : IsInstance(exc, ExceptClauses(fn)[i])

\* The requests of one iteration of simulate_user: the first stands for the
\* ones directly in the loop's try block (create, send, reads), each of the
\* others has a try block of its own that catches httpx.TimeoutException.
Iteration == <<"send", "search", "unread_count", "mark_read", "list_notifications">>
InnerTry(at) == at > 1

\* since = None: poll_notifications reads it as 2000-01-01, before any row.
SinceNone == -1

\* The user of the first poller: assigned_user_ids[0].
PolledUser == 1

TaskNames == {"worker", "broadcaster", "poller"}
NoTask == [fn |-> "none", pc |-> "not_started", at |-> 1, failed |-> FALSE]

\* The load generator before it has started.
NoHarness ==
    [startup |-> [pc |-> "off", attempt |-> 0, error |-> "none"],
     task |-> [t \in TaskNames |-> NoTask],
     since |-> SinceNone, received |-> {}, gathered |-> 0, abandoned |-> 0]

Startup == harness.startup
Task(t) == harness.task[t]

HarnessStep(newStartup, newTasks) ==
    /\ harness' = [harness EXCEPT !.startup = newStartup, !.task = newTasks]
    /\ UNCHANGED <<pc, op, result, poolVars, storeVars, rowLocks, tx, now, hist>>

\* asyncio.create_task(...) for the user tasks, the broadcaster, the pollers
Started ==
    [t \in TaskNames |-> [Task(t) EXCEPT !.pc = "request"]]

\* resp = await client.get("/health"): 200 ends the wait, a ConnectError is
\* passed over, any other exception leaves wait_for_app and main()
wait_for_app_attempt(out) ==
    /\ Startup.pc = "attempt"
    /\ Startup.attempt < HealthAttempts
    /\ IF out = "200"
       THEN HarnessStep([Startup EXCEPT !.pc = "healthy"], Started)
       ELSE IF out \in Raised /\ ~Caught("wait_for_app", out)
       THEN HarnessStep([Startup EXCEPT !.pc = "failed", !.error = out],
                        harness.task)
       ELSE HarnessStep([Startup EXCEPT !.pc = "sleep"], harness.task)

\* await asyncio.sleep(2), then the next attempt
wait_for_app_sleep ==
    /\ Startup.pc = "sleep"
    /\ HarnessStep([Startup EXCEPT !.pc = "attempt", !.attempt = @ + 1],
                   harness.task)

\* The end of the attempts as it would be if it were only logged: main()
\* goes on and creates the tasks.
wait_for_app_logged ==
    /\ Startup.pc = "attempt"
    /\ Startup.attempt = HealthAttempts
    /\ HarnessStep([Startup EXCEPT !.pc = "failed", !.error = "RuntimeError"],
                   Started)

\* raise RuntimeError("App did not become healthy in time")
wait_for_app_raise ==
    /\ Startup.pc = "attempt"
    /\ Startup.attempt = HealthAttempts
    /\ HarnessStep([Startup EXCEPT !.pc = "failed", !.error = "RuntimeError"],
                   harness.task)

\* The task after a request that ended with `out`.  An exception that one
\* of the function's except clauses catches ends the iteration in a sleep;
\* one that none catches ends the task.
AfterRequest(t, out, next) ==
    IF out \in Raised
    THEN IF Caught(Task(t).fn, out)
         THEN [Task(t) EXCEPT !.pc = "sleep", !.at = 1, !.failed = TRUE]
         ELSE [Task(t) EXCEPT !.pc = "crashed", !.failed = TRUE]
    ELSE [next EXCEPT !.failed = @ \/ out = "non200"]

TaskStep(t, newTask) ==
    /\ harness' = [harness EXCEPT !.task[t] = newTask]
    /\ UNCHANGED <<pc, op, result, poolVars, storeVars, rowLocks, tx, now, hist>>

\* The next request of the iteration, or the sleep that ends it.
Advanced(t) ==
    IF Task(t).at = Len(Iteration)
    THEN [Task(t) EXCEPT !.pc = "sleep", !.at = 1]
    ELSE [Task(t) EXCEPT !.at = @ + 1]

\* One request of simulate_user's loop body.  A status other than 200 is
\* logged (after a failed create the task sleeps and starts over); a
\* timeout of a request with a try block of its own is logged there and the
\* iteration goes on.
simulate_user(out) ==
    /\ Task("worker").fn = "simulate_user"
    /\ Task("worker").pc = "request"
    /\ IF InnerTry(Task("worker").at) /\ out = "TimeoutException"
       THEN TaskStep("worker", [Advanced("worker") EXCEPT !.failed = TRUE])
       ELSE \/ TaskStep("worker", AfterRequest("worker", out, Advanced("worker")))
            \/ /\ out = "non200" /\ ~InnerTry(Task("worker").at)
               /\ TaskStep("worker", [Task("worker") EXCEPT !.pc = "sleep",
                                                           !.failed = TRUE])

\* `if random.random() < RATIO` is false: the request is not made.
simulate_user_skip ==
    /\ Task("worker").fn = "simulate_user"
    /\ Task("worker").pc = "request"
    /\ InnerTry(Task("worker").at)
    /\ TaskStep("worker", Advanced("worker"))

\* The start of a burst of simulate_user_burst: the conversation is
\* created; on 200 the task starts BURST_CONCURRENCY _send_one coroutines
\* and awaits asyncio.gather() of them, on another status it sleeps and
\* starts over.
simulate_user_burst(out) ==
    /\ Task("worker").fn = "simulate_user_burst"
    /\ Task("worker").pc = "request"
    /\ out = "200" => harness.abandoned + BURST_CONCURRENCY <= MaxInFlight
    /\ harness' = [harness EXCEPT
           !.task["worker"] =
               AfterRequest("worker", out,
                   [Task("worker") EXCEPT
                       !.pc = IF out = "200" THEN "gather" ELSE "sleep"]),
           !.gathered = IF out = "200" THEN BURST_CONCURRENCY ELSE 0]
    /\ UNCHANGED <<pc, op, result, poolVars, storeVars, rowLocks, tx, now, hist>>

\* One add_message request of a burst ends.  While the task awaits the
\* gather: a response leaves the others awaited, and the last one ends the
\* gather; an exception is raised out of the gather at once, into the
\* task's except clauses, while the other requests of the burst go on
\* unawaited (asyncio.gather cancels nothing).  A request that is no longer
\* awaited ends without the task noticing.
send_one(out) ==
    \/ /\ Task("worker").pc = "gather"
       /\ harness' = [harness EXCEPT
              !.task["worker"] =
                  AfterRequest("worker", out,
                      [Task("worker") EXCEPT
                          !.pc = IF harness.gathered = 1
                                 THEN "sleep" ELSE "gather"]),
              !.gathered = IF out \in Raised THEN 0 ELSE @ - 1,
              !.abandoned = IF out \in Raised
                            THEN @ + harness.gathered - 1 ELSE @]
       /\ UNCHANGED <<pc, op, result, poolVars, storeVars, rowLocks, tx, now,
                      hist>>
    \/ /\ harness.abandoned > 0
       /\ harness' = [harness EXCEPT !.abandoned = @ - 1]
       /\ UNCHANGED <<pc, op, result, poolVars, storeVars, rowLocks, tx, now,
                      hist>>

\* What a broadcast that answered 200 has committed: one unread
\* notification per user.
Broadcast ==
    {[by |-> now + 1, user |-> u, read |-> FALSE, created_at |-> now + 1,
      type |-> SystemType, payload |-> NoPayload] : u \in Users}

\* One request of broadcast_loop.
broadcast_loop(out) ==
    /\ Task("broadcaster").pc = "request"
    /\ out = "200" => now < MaxBroadcasts
    /\ harness' = [harness EXCEPT !.task["broadcaster"] =
           AfterRequest("broadcaster", out,
               [Task("broadcaster") EXCEPT !.pc = "sleep"])]
    /\ notifications' =
           IF out = "200" THEN notifications \cup Broadcast ELSE notifications
    /\ now' = IF out = "200" THEN now + 1 ELSE now
    /\ UNCHANGED <<pc, op, result, poolVars, conversations, message_count,
                   messages, token_usage, rowLocks, tx, hist>>

\* The rows of a poll response, in the order the store returned them: the
\* query of poll_notifications has no ORDER BY.
AnyOrder(S) ==
    {q \in [1 .. Cardinality(S) -> S] :
        \A i, j \in 1 .. Cardinality(S) : i # j => q[i] # q[j]}

\* since = notifs[-1].get("created_at", since)
SinceAfter(notifs) ==
    IF notifs = <<>> THEN harness.since ELSE notifs[Len(notifs)].created_at

\* One request of poll_loop.
poll_loop(out) ==
    /\ Task("poller").pc = "request"
    /\ \E notifs \in AnyOrder(NewNotifications(PolledUser, harness.since)) :
          harness' = [harness EXCEPT
              !.task["poller"] =
                  AfterRequest("poller", out, [Task("poller") EXCEPT !.pc = "sleep"]),
              !.since = IF out = "200" THEN SinceAfter(notifs) ELSE @,
              !.received = IF out = "200"
                           THEN @ \cup {notifs[i] : i \in 1 .. Len(notifs)}
                           ELSE @]
    /\ UNCHANGED <<pc, op, result, poolVars, storeVars, rowLocks, tx, now, hist>>

\* The sleep that ends an iteration: asyncio.sleep(5) after a ConnectError,
\* asyncio.sleep(REQUEST_DELAY * jitter), BROADCAST_INTERVAL or 0.5 second.
task_sleep(t) ==
    /\ Task(t).pc = "sleep"
    /\ TaskStep(t, [Task(t) EXCEPT !.pc = "request", !.at = 1, !.failed = FALSE])

(* --------------------------- specifications --------------------------- *)

\* A store in which the accounting is right: every conversation exists and
\* holds no message or one, message_count and token_usage say so.
InitialMessages ==
    [Convs -> {<<>>} \cup {<<[token_count |-> t, created_at |-> 0]>> : t \in InitTokens}]

\* Notifications of an earlier broadcast (by no call of this run): none, or
\* one unread row per user.
InitialNotifications ==
    {{}, {[by |-> 0, user |-> u, read |-> FALSE, created_at |-> 0,
           type |-> SystemType, payload |-> NoPayload] : u \in Users}}

Init ==
    /\ pc = [o \in AllOps |-> "idle"]
    /\ op = [o \in AllOps |-> NoOp]
    /\ result = [o \in AllOps |-> "none"]
    /\ lease = [o \in AllOps |-> 0]
    /\ waiters = <<>>
    /\ connOpen = 1 .. Min(min_size, PoolMax)
    /\ conversations = Convs
    /\ messages \in InitialMessages
    /\ message_count = [c \in Convs |-> Len(messages[c])]
    /\ token_usage = SumOver([c \in Convs |-> SumTokens(messages[c])], Convs)
    /\ notifications = {}
    /\ rowLocks = [o \in AllOps |-> {}]
    /\ tx = [o \in AllOps |-> NoTx]
    /\ now = 0
    /\ hist = [overlapped |-> FALSE, initial_usage |-> token_usage,
               initial_count |-> message_count]
    /\ harness = NoHarness

\* Concurrent add_message, stream_response and delete_conversation calls,
\* no more of them than the pool has connections: none ever blocks in
\* pool.acquire().
NextAcct ==
    \E o \in Ops :
        \/ call_add_message(o)
        \/ call_delete_conversation(o)
        \/ call_stream_response(o)
        \/ add_message_insert(o)
        \/ add_message_count(o)
        \/ add_message_read(o)
        \/ add_message_write(o)
        \/ add_message_commit(o)
        \/ delete_conversation_sum(o)
        \/ delete_conversation_conv(o)
        \/ delete_conversation_delete(o)
        \/ delete_conversation_read(o)
        \/ delete_conversation_write(o)
        \/ delete_conversation_commit(o)
        \/ stream_response_insert(o)
        \/ stream_response_sleep(o)
        \/ stream_response_assistant(o)
        \/ stream_response_count(o)
        \/ stream_response_read(o)
        \/ stream_response_write(o)
        \/ stream_response_commit(o)
        \/ TransportFailure(o)

SpecAcct == Init /\ [][NextAcct]_vars

\* A store with notifications in it and conversations left alone.
InitBcast ==
    /\ pc = [o \in AllOps |-> "idle"]
    /\ op = [o \in AllOps |-> NoOp]
    /\ result = [o \in AllOps |-> "none"]
    /\ lease = [o \in AllOps |-> 0]
    /\ waiters = <<>>
    /\ connOpen = 1 .. Min(min_size, PoolMax)
    /\ conversations = Convs
    /\ messages = [c \in Convs |-> <<>>]
    /\ message_count = [c \in Convs |-> 0]
    /\ token_usage = 0
    /\ notifications \in InitialNotifications
    /\ rowLocks = [o \in AllOps |-> {}]
    /\ tx = [o \in AllOps |-> NoTx]
    /\ now = 0
    /\ hist = [overlapped |-> FALSE, initial_usage |-> token_usage,
               initial_count |-> message_count]
    /\ harness = NoHarness

NotificationSteps(o) ==
    \/ broadcast_users(o)
    \/ broadcast_begin(o)
    \/ broadcast_insert(o)
    \/ broadcast_commit(o)
    \/ SerializationFailure(o)
    \/ mark_all_read_select(o)
    \/ mark_all_read_update(o)
    \/ mark_all_read_return(o)
    \/ poll_notifications_begin(o)
    \/ poll_notifications_query(o)
    \/ poll_notifications_sleep(o)
    \/ poll_notifications_timeout(o)
    \/ get_unread_count(o)

\* Concurrent broadcasts, polls, mark_all_read and unread counts.
NextBcast ==
    \E o \in Ops :
        \/ call_broadcast_notification(o)
        \/ call_broadcast_notification_serializable(o)
        \/ call_mark_all_read(o)
        \/ call_poll_notifications(o)
        \/ call_get_unread_count(o)
        \/ NotificationSteps(o)
        \/ TransportFailure(o)

SpecBcast == InitBcast /\ [][NextBcast]_vars

\* The steps of a poll_notifications call.  None of them waits for a lock;
\* the event loop resumes the coroutine when its query has answered or its
\* sleep has elapsed.
PollSteps(o) ==
    \/ poll_notifications_begin(o)
    \/ poll_notifications_query(o)
    \/ poll_notifications_sleep(o)
    \/ poll_notifications_timeout(o)

SpecPoll == SpecBcast /\ \A o \in Ops : WF_vars(PollSteps(o))

\* Two callers more than the pool has connections; the calls are the
\* reads, each of which holds its lease for one statement.
NextPool ==
    \E o \in AllOps :
        \/ call_get_unread_count(o)
        \/ call_get_messages(o)
        \/ Acquire(o)
        \/ get_unread_count(o)
        \/ get_messages(o)
        \/ TransportFailure(o)

SpecPool == InitBcast /\ [][NextPool]_vars

\* One stream_response more than the pool has connections.
NextStream ==
    \E o \in Streamers :
        \/ call_stream_response(o)
        \/ Acquire(o)
        \/ stream_response_insert(o)
        \/ stream_response_sleep(o)
        \/ stream_response_assistant(o)
        \/ stream_response_count(o)
        \/ stream_response_read(o)
        \/ stream_response_write(o)
        \/ stream_response_commit(o)
        \/ TransportFailure(o)

\* empty conversations and no notification in the store
InitStream == InitBcast /\ notifications = {}

SpecStream == InitStream /\ [][NextStream]_vars

\* Every data-layer call modelled, from a store with conversations.
Next ==
    \/ NextAcct
    \/ \E o \in Ops :
          \/ call_broadcast_notification(o)
          \/ call_broadcast_notification_serializable(o)
          \/ call_mark_all_read(o)
          \/ call_poll_notifications(o)
          \/ call_get_unread_count(o)
          \/ call_get_messages(o)
          \/ get_messages(o)
          \/ NotificationSteps(o)

Spec == Init /\ [][Next]_vars

\* The calls of SpecAcct with one more caller that reads a conversation's
\* messages; with one caller more than connections a call may have to wait.
Reader == PoolMax + 1

NextRead ==
    \/ NextAcct
    \/ call_get_messages(Reader)
    \/ get_messages(Reader)
    \/ \E o \in Ops \cup {Reader} : Acquire(o)

SpecRead == Init /\ [][NextRead]_vars

\* A store whose notifications carry any payload, and the calls that list
\* them while broadcasts add notifications and conversations are deleted.
PayloadNotifications ==
    {{}} \cup {{[by |-> 0, user |-> u, read |-> FALSE, created_at |-> 0,
                type |-> SystemType, payload |-> p] : u \in Users} : p \in Payloads}

InitList ==
    /\ pc = [o \in AllOps |-> "idle"]
    /\ op = [o \in AllOps |-> NoOp]
    /\ result = [o \in AllOps |-> "none"]
    /\ lease = [o \in AllOps |-> 0]
    /\ waiters = <<>>
    /\ connOpen = 1 .. Min(min_size, PoolMax)
    /\ conversations = Convs
    /\ messages = [c \in Convs |-> <<>>]
    /\ message_count = [c \in Convs |-> 0]
    /\ token_usage = 0
    /\ notifications \in PayloadNotifications
    /\ rowLocks = [o \in AllOps |-> {}]
    /\ tx = [o \in AllOps |-> NoTx]
    /\ now = 0
    /\ hist = [overlapped |-> FALSE, initial_usage |-> token_usage,
               initial_count |-> message_count]
    /\ harness = NoHarness

NextList ==
    \E o \in Ops :
        \/ call_list_notifications(o)
        \/ call_broadcast_notification(o)
        \/ call_delete_conversation(o)
        \/ list_notifications_select(o)
        \/ list_notifications_item(o)
        \/ list_notifications_return(o)
        \/ broadcast_users(o)
        \/ broadcast_begin(o)
        \/ broadcast_insert(o)
        \/ broadcast_commit(o)
        \/ delete_conversation_sum(o)
        \/ delete_conversation_conv(o)
        \/ delete_conversation_delete(o)
        \/ delete_conversation_read(o)
        \/ delete_conversation_write(o)
        \/ delete_conversation_commit(o)
        \/ TransportFailure(o)

SpecList == InitList /\ [][NextList]_vars

\* The steps of a call between its start and its end: the event loop
\* resumes a coroutine whose statement has answered, whose lock was granted,
\* whose sleep has elapsed or whose getter was woken.
Resumes(o) ==
    \/ Acquire(o)
    \/ add_message_insert(o)
    \/ add_message_count(o)
    \/ add_message_read(o)
    \/ add_message_write(o)
    \/ add_message_commit(o)
    \/ delete_conversation_sum(o)
    \/ delete_conversation_conv(o)
    \/ delete_conversation_delete(o)
    \/ delete_conversation_read(o)
    \/ delete_conversation_write(o)
    \/ delete_conversation_commit(o)
    \/ stream_response_insert(o)
    \/ stream_response_sleep(o)
    \/ stream_response_assistant(o)
    \/ stream_response_count(o)
    \/ stream_response_read(o)
    \/ stream_response_write(o)
    \/ stream_response_commit(o)
    \/ broadcast_users(o)
    \/ broadcast_begin(o)
    \/ broadcast_insert(o)
    \/ broadcast_commit(o)
    \/ mark_all_read_select(o)
    \/ mark_all_read_update(o)
    \/ mark_all_read_return(o)
    \/ PollSteps(o)

\* Two writers, the second of which may be a broadcast instead, and, as one
\* call more than the pool has connections, a broadcast, a mark_all_read or
\* a poll, each started at any time.  The
\* arguments that do not decide what a call waits for are fixed; the first
\* writer's conversation is conversation 1, the conversations being alike.
NextLive ==
    \/ \E o \in Ops :
          /\ \/ call_add_message(o) /\ op'[o].token_count = 1
             \/ call_delete_conversation(o)
             \/ /\ call_stream_response(o)
                /\ op'[o].token_count = 1
                /\ Len(op'[o].selected) = Cardinality(FragmentPool)
             \/ /\ call_broadcast_notification(o)
                /\ op'[o].payload = NoPayload
                /\ o # 1
          /\ o = 1 => op'[o].conv = 1
    \/ \E o \in {PoolMax + 1} :
          \/ call_broadcast_notification(o) /\ op'[o].payload = NoPayload
          \/ /\ call_broadcast_notification_serializable(o)
             /\ op'[o].payload = NoPayload
          \/ call_mark_all_read(o) /\ op'[o].user = DEFAULT_USER_ID
          \/ call_poll_notifications(o) /\ op'[o].user = DEFAULT_USER_ID
          \/ SerializationFailure(o)
    \/ \E o \in Streamers : Resumes(o)

SpecLive ==
    /\ InitStream
    /\ [][NextLive]_vars
    /\ \A o \in Streamers : WF_vars(Resumes(o))

\* HTTP requests to /api/ paths, as many as the pool has connections: the
\* handler's data-layer call, then the middleware's lookup.
NextApi ==
    \/ \E o \in Requests :
          \/ call_add_message(o) /\ op'[o].token_count = 1
          \/ call_delete_conversation(o)
          \/ call_broadcast_notification(o) /\ op'[o].payload = NoPayload
          \/ call_mark_all_read(o) /\ op'[o].user = DEFAULT_USER_ID
          \/ unread_count_middleware(o)
    \/ \E o \in AllOps :
          \/ add_message_insert(o)
          \/ add_message_count(o)
          \/ add_message_read(o)
          \/ add_message_write(o)
          \/ add_message_commit(o)
          \/ delete_conversation_sum(o)
          \/ delete_conversation_conv(o)
          \/ delete_conversation_delete(o)
          \/ delete_conversation_read(o)
          \/ delete_conversation_write(o)
          \/ delete_conversation_commit(o)
          \/ broadcast_users(o)
          \/ broadcast_begin(o)
          \/ broadcast_insert(o)
          \/ broadcast_commit(o)
          \/ mark_all_read_select(o)
          \/ mark_all_read_update(o)
          \/ mark_all_read_return(o)
          \/ get_unread_count(o)
          \/ TransportFailure(o)

SpecApi == InitBcast /\ [][NextApi]_vars

\* The load generator from its start, in normal or in burst mode, against a
\* service whose every request may answer, fail or time out.
InitHarness ==
    /\ pc = [o \in AllOps |-> "idle"]
    /\ op = [o \in AllOps |-> NoOp]
    /\ result = [o \in AllOps |-> "none"]
    /\ lease = [o \in AllOps |-> 0]
    /\ waiters = <<>>
    /\ connOpen = 1 .. Min(min_size, PoolMax)
    /\ conversations = Convs
    /\ messages = [c \in Convs |-> <<>>]
    /\ message_count = [c \in Convs |-> 0]
    /\ token_usage = 0
    /\ notifications \in InitialNotifications
    /\ rowLocks = [o \in AllOps |-> {}]
    /\ tx = [o \in AllOps |-> NoTx]
    /\ now = 0
    /\ hist = [overlapped |-> FALSE, initial_usage |-> token_usage,
               initial_count |-> message_count]
    /\ \E mode \in {"simulate_user", "simulate_user_burst"} :
          harness = [NoHarness EXCEPT
              !.startup.pc = "attempt",
              !.task = [t \in TaskNames |->
                  [NoTask EXCEPT !.fn = CASE t = "worker" -> mode
                                         [] t = "broadcaster" -> "broadcast_loop"
                                         [] t = "poller" -> "poll_loop"]]]

NextHarness ==
    \/ \E out \in Responses \cup Raised :
          \/ wait_for_app_attempt(out)
          \/ simulate_user(out)
          \/ simulate_user_burst(out)
          \/ send_one(out)
          \/ broadcast_loop(out)
          \/ poll_loop(out)
    \/ wait_for_app_sleep
    \/ wait_for_app_raise
    \/ simulate_user_skip
    \/ \E t \in TaskNames : task_sleep(t)

\* Every request of a task ends (each has a timeout) and every sleep
\* elapses.
SpecHarness ==
    /\ InitHarness
    /\ [][NextHarness]_vars
    /\ WF_vars(\E out \in Responses \cup Raised :
                  simulate_user(out) \/ simulate_user_burst(out)
                      \/ send_one(out))
    /\ WF_vars(simulate_user_skip)
    /\ WF_vars(\E out \in Responses \cup Raised : broadcast_loop(out))
    /\ WF_vars(\E out \in Responses \cup Raised : poll_loop(out))
    /\ \A t \in TaskNames : WF_vars(task_sleep(t))

\* A poller of the load generator polling while clients broadcast through
\* the data layer: each poll answers with what its query finds committed.
InitFeed ==
    /\ pc = [o \in AllOps |-> "idle"]
    /\ op = [o \in AllOps |-> NoOp]
    /\ result = [o \in AllOps |-> "none"]
    /\ lease = [o \in AllOps |-> 0]
    /\ waiters = <<>>
    /\ connOpen = 1 .. Min(min_size, PoolMax)
    /\ conversations = Convs
    /\ messages = [c \in Convs |-> <<>>]
    /\ message_count = [c \in Convs |-> 0]
    /\ token_usage = 0
    /\ notifications \in InitialNotifications
    /\ rowLocks = [o \in AllOps |-> {}]
    /\ tx = [o \in AllOps |-> NoTx]
    /\ now = 0
    /\ hist = [overlapped |-> FALSE, initial_usage |-> token_usage,
               initial_count |-> message_count]
    /\ harness = [NoHarness EXCEPT
           !.startup.pc = "healthy",
           !.task["poller"] = [NoTask EXCEPT !.fn = "poll_loop",
                                             !.pc = "request"]]

NextFeed ==
    \/ \E o \in Ops :
          \/ call_broadcast_notification(o) /\ op'[o].payload = NoPayload
          \/ /\ call_broadcast_notification_serializable(o)
             /\ op'[o].payload = NoPayload
          \/ broadcast_users(o)
          \/ broadcast_begin(o)
          \/ broadcast_insert(o)
          \/ broadcast_commit(o)
          \/ SerializationFailure(o)
    \/ \E out \in Responses \cup Raised : poll_loop(out)
    \/ task_sleep("poller")

SpecFeed ==
    /\ InitFeed
    /\ [][NextFeed]_vars
    /\ WF_vars(\E out \in Responses \cup Raised : poll_loop(out))
    /\ WF_vars(task_sleep("poller"))

(* ------------------------------ claims -------------------------------- *)

Done(o) == pc[o] = "done"
Quiescent == \A o \in AllOps : ~InFlight(o)
Returned(o, name, ret) == Done(o) /\ op[o].name = name /\ result[o] = ret

\* Two finished add_message calls that both read the same token_usage (so
\* the second read came before the first write), nothing else having run.
RacedAdds(o1, o2) ==
    /\ o1 # o2
    /\ Returned(o1, "add_message", "ok")
    /\ Returned(o2, "add_message", "ok")
    /\ tx[o1].current = tx[o2].current
    /\ \A p \in AllOps \ {o1, o2} : pc[p] = "idle"

\* C1: lost update.  When two add_message calls on conversations of the
\* same user, adding a and b, both read the same token_usage before either
\* wrote it back, the final token_usage is initial + a or initial + b (the
\* later writer's), never initial + a + b.
C1_LostUpdate ==
    \A o1, o2 \in Ops :
        RacedAdds(o1, o2) =>
            /\ tx[o1].current = <<hist.initial_usage>>
            /\ token_usage \in {hist.initial_usage + op[o1].token_count,
                                hist.initial_usage + op[o2].token_count}
            /\ token_usage # hist.initial_usage + op[o1].token_count
                                                + op[o2].token_count

\* C1 witness: the race with 0 < a < b, ending in initial + max(a, b).
C1_Witness ==
    \E o1, o2 \in Ops :
        /\ RacedAdds(o1, o2)
        /\ 0 < op[o1].token_count
        /\ op[o1].token_count < op[o2].token_count
        /\ token_usage = hist.initial_usage
                           + Max(op[o1].token_count, op[o2].token_count)

\* Two calls of one burst: add_message calls on the same conversation.
BurstPair(o1, o2) ==
    /\ o1 # o2
    /\ op[o1].name = "add_message"
    /\ op[o2].name = "add_message"
    /\ op[o1].conv = op[o2].conv

\* C2: within one burst the read-modify-write race is reachable.  For the
\* race one call of the burst has to read token_usage while another call
\* of the burst stands between its read and its write: so a call of the
\* burst that has inserted its message and has not read token_usage yet can
\* run its next statement while another call of the burst, having read, has
\* not written token_usage back.
C2_BurstRaceReachable ==
    \A o1, o2 \in Ops :
        (BurstPair(o1, o2) /\ pc[o1] = "add_write" /\ pc[o2] = "add_count")
            => ENABLED add_message_count(o2)

\* What the code does instead: two calls of one burst never both hold a
\* read of token_usage in open transactions, and a finished burst has lost
\* no update.
BurstSerialized ==
    \A o1, o2 \in Ops :
        BurstPair(o1, o2) =>
            /\ ~(tx[o1].open /\ tx[o2].open
                 /\ tx[o1].current # <<>> /\ tx[o2].current # <<>>)
            /\ (/\ Returned(o1, "add_message", "ok")
                /\ Returned(o2, "add_message", "ok")
                /\ \A p \in AllOps \ {o1, o2} : pc[p] = "idle")
               => token_usage = hist.initial_usage + op[o1].token_count
                                                   + op[o2].token_count

OnlyAddMessage == \A o \in AllOps : pc[o] # "idle" => op[o].name = "add_message"
AddedTo(c) == {o \in AllOps : Returned(o, "add_message", "ok") /\ op[o].conv = c}

\* C3: once concurrent add_message calls have all finished, every
\* conversation's message_count is its initial value plus the number of
\* messages inserted into it.
C3_MessageCountAtomic ==
    (Quiescent /\ OnlyAddMessage) =>
        \A c \in Convs :
            /\ message_count[c] = hist.initial_count[c] + Cardinality(AddedTo(c))
            /\ Len(messages[c]) = hist.initial_count[c] + Cardinality(AddedTo(c))

\* C3 witness: two overlapping add_message calls on one conversation, done.
C3_Witness ==
    /\ Quiescent
    /\ OnlyAddMessage
    /\ hist.overlapped
    /\ \E c \in Convs : Cardinality(AddedTo(c)) = 2

AllTokens == SumOver([c \in Convs |-> SumTokens(messages[c])], Convs)

\* C4: when the calls did not overlap, at every quiescent instant
\* token_usage is the sum of token_count over all messages.
C4_AccountingSequential ==
    (Quiescent /\ ~hist.overlapped) => token_usage = AllTokens

\* C5: a delete_conversation that deleted the conversation subtracted the
\* sum of token_count of exactly the messages removed with it.
C5_DeleteSubtractsRemoved ==
    \A o \in Ops :
        (Returned(o, "delete_conversation", "true") /\ tx[o].deleted)
            => tx[o].total_tokens = tx[o].removed[1]

\* C6: delete_conversation returns true exactly when its DELETE removed the
\* row; of two calls on one conversation at most one returns true.
C6_DeleteReturnsDeleted ==
    /\ \A o \in Ops :
           (Done(o) /\ op[o].name = "delete_conversation"
                    /\ result[o] \in {"true", "false"})
               => /\ (result[o] = "true") <=> tx[o].deleted
                  /\ (result[o] = "false") => tx[o].current = <<>>
    /\ \A o1, o2 \in Ops :
           (/\ o1 # o2
            /\ Returned(o1, "delete_conversation", "true")
            /\ Returned(o2, "delete_conversation", "true"))
               => op[o1].conv # op[o2].conv

WrittenFor(o) == {n.user : n \in {m \in notifications : m.by = o}}

\* C7: two broadcast_notification_serializable calls whose transactions were
\* open at the same time and wrote notifications for a common user never
\* both commit: at least one fails with a serialization conflict.
C7_StrictBroadcastConflict ==
    \A o1, o2 \in Ops :
        (/\ o1 # o2
         /\ Serializable(o1) /\ Serializable(o2)
         /\ Done(o1) /\ Done(o2)
         /\ Concurrent(o1, o2)
         /\ WrittenFor(o1) \cap WrittenFor(o2) # {})
            => "SerializationError" \in {result[o1], result[o2]}

\* C8: a broadcast_notification_serializable call begins at most one
\* transaction; a call the store aborted with a serialization conflict has
\* ended with that error, and no notification of it is stored or pending.
C8_NoSilentRetry ==
    \A o \in Ops :
        Serializable(o) =>
            /\ tx[o].begins <= 1
            /\ result[o] = "SerializationError" =>
                   /\ Done(o)
                   /\ WrittenFor(o) = {}
                   /\ tx[o].notifs = {}
                   /\ ~tx[o].open

\* C8 witness: a strict broadcast aborted by the store after it had begun,
\* while the broadcast it ran against has committed.
C8_Witness ==
    \E o, p \in Ops :
        /\ o # p
        /\ Serializable(o) /\ Serializable(p)
        /\ result[o] = "SerializationError"
        /\ tx[o].begins = 1
        /\ Returned(p, "broadcast_notification_serializable", "ok")
        /\ WrittenFor(p) = Users

Leased == {o \in AllOps : lease[o] # 0}
AtStatement(o) == pc[o] \notin {"idle", "waiting", "woken", "done"}

\* C9: a connection is leased to at most one call, there are never more
\* leases than the pool has connections, and a call runs its statements
\* only on the connection leased to it.
C9_LeaseExclusive ==
    /\ \A o1, o2 \in AllOps :
           (o1 # o2 /\ lease[o1] # 0) => lease[o1] # lease[o2]
    /\ Cardinality(Leased) <= PoolMax
    /\ \A o \in AllOps : AtStatement(o) <=> lease[o] # 0
    /\ \A o \in Leased : lease[o] \in connOpen

\* C9 witness: every connection of the pool is leased and one more caller
\* waits for a lease.
C9_Witness ==
    /\ Cardinality(Leased) = PoolMax
    /\ \E o \in AllOps : pc[o] = "waiting" /\ Head(waiters) = o

\* C10: a call that has returned or raised holds no lease (and no row
\* lock); when no call is in flight every connection of the pool is idle.
C10_LeaseReleased ==
    /\ \A o \in AllOps : ~AtStatement(o) => (lease[o] = 0 /\ rowLocks[o] = {})
    /\ Quiescent => PoolIdle = PoolSize

\* C10 witness: nothing is in flight after one call was aborted with a
\* serialization conflict and another lost its connection.
C10_Witness ==
    /\ Quiescent
    /\ PoolIdle = PoolSize
    /\ \E o1, o2 \in Ops :
           /\ result[o1] = "SerializationError"
           /\ result[o2] = "ConnectionError"

\* C11: callers blocked in pool.acquire() get their leases in the order in
\* which they started waiting: no call that arrives later is given a lease
\* while a call that was already waiting for one is still without it.
C11_FifoAcquisition ==
    [][\A o \in AllOps :
          (pc[o] = "idle" /\ lease'[o] # 0)
              => \A p \in AllOps : pc[p] \notin {"waiting", "woken"}]_vars

\* Any step of call o.
Steps(o) ==
    \/ call_add_message(o) \/ call_delete_conversation(o)
    \/ call_stream_response(o) \/ call_broadcast_notification(o)
    \/ call_broadcast_notification_serializable(o) \/ call_mark_all_read(o)
    \/ call_poll_notifications(o) \/ call_get_messages(o)
    \/ call_get_unread_count(o) \/ Acquire(o)
    \/ add_message_insert(o) \/ add_message_count(o) \/ add_message_read(o)
    \/ add_message_write(o) \/ add_message_commit(o)
    \/ delete_conversation_sum(o) \/ delete_conversation_conv(o)
    \/ delete_conversation_delete(o) \/ delete_conversation_read(o)
    \/ delete_conversation_write(o) \/ delete_conversation_commit(o)
    \/ stream_response_insert(o) \/ stream_response_sleep(o)
    \/ stream_response_assistant(o) \/ stream_response_count(o)
    \/ stream_response_read(o) \/ stream_response_write(o)
    \/ stream_response_commit(o)
    \/ NotificationSteps(o) \/ get_messages(o) \/ TransportFailure(o)

\* C12: a call blocked in pool.acquire() on an exhausted pool does not wait
\* without bound: it can be failed with PoolExhausted, whatever the holders
\* of the leases do.
C12_BoundedWait ==
    \A o \in AllOps :
        (pc[o] = "waiting" /\ FreeConns = {})
            => ENABLED (Steps(o) /\ result'[o] = "PoolExhausted")

\* A stream_response that returned has run its whole fragment loop.
RanWholeLoop(p) ==
    /\ Done(p)
    /\ result[p] = "ok" =>
           /\ tx[p].chunks = Len(op[p].selected)
           /\ tx[p].chunks >= 1

\* C13: of PoolMax + 1 concurrent stream_response calls at most PoolMax hold
\* a lease at once, and a call that is given its lease when all the others
\* have been called gets it only after one of them has run its whole
\* fragment loop (or failed) and released.
C13_PoolExhaustion ==
    /\ [](Cardinality({o \in Streamers : lease[o] # 0}) <= PoolMax)
    /\ [][\A o \in Streamers :
             (/\ lease[o] = 0
              /\ lease'[o] # 0
              /\ \A p \in Streamers \ {o} : pc[p] # "idle")
                 => \E p \in Streamers \ {o} : RanWholeLoop(p)]_vars

\* C13 witness: PoolMax streams are suspended inside their fragment loops,
\* holding every connection, and one more stream waits for a lease.
C13_Witness ==
    /\ \E w \in Streamers : pc[w] = "waiting"
    /\ Cardinality({o \in Streamers : pc[o] = "st_sleep" /\ tx[o].chunks >= 1})
           = PoolMax

PollStates == {"poll_query", "poll_sleep"}

\* C14: from its first query until it returns, poll_notifications holds one
\* lease and one open transaction: in every state of the retry loop it has
\* both, it has begun one transaction only, and no step of the loop (a query
\* that found nothing, a sleep) changes the connection or the transaction.
C14_PollHoldsLease ==
    /\ [](\A o \in Ops :
             pc[o] \in PollStates =>
                 (lease[o] # 0 /\ tx[o].open /\ tx[o].begins = 1))
    /\ [][\A o \in Ops :
             (pc[o] \in PollStates /\ pc'[o] \in PollStates) =>
                 (lease'[o] = lease[o] /\ tx'[o].start = tx[o].start)]_vars

\* C14 witness: a poll that found nothing in all its attempts, still with
\* its lease and its transaction.
C14_Witness ==
    \E o \in Ops :
        /\ pc[o] = "poll_query"
        /\ tx[o].attempts = PollAttempts
        /\ lease[o] # 0
        /\ tx[o].open

StreamStates == {"st_sleep", "st_count", "st_read", "st_write", "st_commit"}

\* C15: from the insert of the user's message until the accounting update
\* commits, stream_response holds one lease and one open transaction with
\* the user's message pending in it; no step of the fragment loop changes
\* the connection or the transaction.
C15_StreamHoldsLease ==
    /\ [](\A o \in Ops :
             pc[o] \in StreamStates =>
                 /\ lease[o] # 0
                 /\ tx[o].open
                 /\ tx[o].begins = 1
                 /\ tx[o].inserted # <<>>)
    /\ [][\A o \in Ops :
             (pc[o] \in StreamStates /\ pc'[o] \in StreamStates) =>
                 (lease'[o] = lease[o] /\ tx'[o].start = tx[o].start)]_vars

\* C15 witness: a stream suspended between two fragments.
C15_Witness ==
    \E o \in Ops :
        /\ pc[o] = "st_sleep"
        /\ tx[o].chunks >= 1
        /\ tx[o].chunks < Len(op[o].selected)
        /\ lease[o] # 0
        /\ tx[o].open

\* The committed message rows written by call o's transaction.
RowsOf(o) ==
    IF tx[o].start = 0 THEN <<>>
    ELSE SelectSeq(messages[op[o].conv], LAMBDA m : m.created_at = tx[o].start)

RECURSIVE FragmentTokens(_)
FragmentTokens(sel) ==
    IF sel = <<>> THEN 0
    ELSE RESPONSE_FRAGMENTS[Head(sel)] + FragmentTokens(Tail(sel))

Writers == {o \in AllOps : /\ Done(o) /\ result[o] = "ok"
                           /\ op[o].name \in {"add_message", "stream_response"}}

\* C16: stream_response is all or nothing.  The committed store never holds
\* a message of a stream that has not committed or has failed, and never a
\* conversation whose message_count differs from its number of messages; a
\* stream that committed wrote the user's and the assistant's message
\* together (they are both there, or both gone with the conversation), and
\* the token_usage it is about to commit is the value it read plus the
\* user's and the assistant's tokens.
C16_StreamAllOrNothing ==
    /\ \A c \in conversations : message_count[c] = Len(messages[c])
    /\ \A c \in Convs : \A i \in 1 .. Len(messages[c]) :
           \/ messages[c][i].created_at = 0
           \/ \E o \in Writers : /\ op[o].conv = c
                                  /\ tx[o].start = messages[c][i].created_at
    /\ \A o \in Ops :
           op[o].name = "stream_response" =>
               /\ IF Returned(o, "stream_response", "ok")
                  THEN \/ RowsOf(o) = <<>>
                       \/ RowsOf(o) =
                             <<[token_count |-> op[o].token_count,
                                created_at |-> tx[o].start],
                               [token_count |-> FragmentTokens(op[o].selected),
                                created_at |-> tx[o].start]>>
                  ELSE RowsOf(o) = <<>>
               /\ pc[o] = "st_commit" =>
                      tx[o].usage = <<tx[o].current[1] + op[o].token_count
                                        + FragmentTokens(op[o].selected)>>

\* C16 witness: a stream that overlapped another call has committed both
\* its messages, and another call has failed leaving nothing.
C16_Witness ==
    \E o, p \in Ops :
        /\ Returned(o, "stream_response", "ok")
        /\ Len(RowsOf(o)) = 2
        /\ hist.overlapped
        /\ op[p].name = "stream_response"
        /\ result[p] \in {"ForeignKeyViolationError", "ConnectionError"}

\* C17: add_message on a conversation that does not exist fails with the
\* not-found condition and leaves the store unchanged.  The step by which an
\* add_message leaves its INSERT while the conversation does not exist ends
\* the call with status 404 (500 only when the connection itself was lost),
\* and changes no message, no message_count and no token_usage; and no
\* add_message that has not already committed ever holds an uncommitted row
\* of a missing conversation.
C17_AddMessageNotFound ==
    /\ [](\A o \in Ops :
            (/\ op[o].name = "add_message" /\ ~Exists(op[o].conv)
             /\ ~Returned(o, "add_message", "ok"))
                => /\ pc[o] \in {"add_insert", "waiting", "woken", "done"}
                   /\ tx[o].inserted = <<>>
                   /\ Done(o) => HttpStatus(o) \in {404, 500}
                   /\ (Done(o) /\ HttpStatus(o) = 500)
                          => result[o] = "ConnectionError")
    /\ [][\A o \in Ops :
            (/\ op[o].name = "add_message"
             /\ pc[o] = "add_insert" /\ pc'[o] # "add_insert"
             /\ ~Exists(op[o].conv))
                => /\ pc'[o] = "done"
                   /\ result'[o] \in {"ForeignKeyViolationError",
                                      "ConnectionError"}
                   /\ (result'[o] = "ForeignKeyViolationError")
                          <=> lease[o] \in connOpen'
                   /\ messages' = messages
                   /\ message_count' = message_count
                   /\ token_usage' = token_usage]_vars

\* C17 witness: an add_message on a deleted conversation has been answered
\* with 404.
C17_Witness ==
    \E o \in Ops :
        /\ Done(o) /\ op[o].name = "add_message"
        /\ ~Exists(op[o].conv)
        /\ HttpStatus(o) = 404

\* C18: cascade deletion.  Of a conversation that has been deleted no message
\* exists, no open transaction still holds a message it could commit to it,
\* and every get_messages that runs on it returns the empty list.
C18_CascadeDeletion ==
    /\ [](\A c \in Convs :
            ~Exists(c) =>
                /\ messages[c] = <<>>
                /\ \A o \in Ops :
                       (tx[o].open /\ op[o].conv = c) => tx[o].inserted = <<>>)
    /\ [][(/\ pc[Reader] = "gm_query" /\ pc'[Reader] = "done"
           /\ ~Exists(op[Reader].conv))
              => (\/ result'[Reader] = "ConnectionError"
                  \/ /\ result'[Reader] = "ok"
                     /\ tx'[Reader].msgs = <<>>
                     /\ tx'[Reader].returned = 0)]_vars

\* C18 witness: a conversation with a message was deleted while a call that
\* began after the delete added to it and committed; a later get_messages
\* returned the empty list.
C18_Witness ==
    \E d, p \in Ops :
        /\ Returned(d, "delete_conversation", "true")
        /\ hist.initial_count[op[d].conv] >= 1
        /\ op[p].name \in {"add_message", "stream_response"}
        /\ Done(p) /\ result[p] = "ok" /\ op[p].conv = op[d].conv
        /\ tx[p].start > tx[d].start
        /\ Returned(Reader, "get_messages", "ok")
        /\ op[Reader].conv = op[d].conv
        /\ tx[Reader].msgs = <<>>

\* The sum of token_count of the first k rows.
PrefixSum(rows, k) == SumTokens(SubSeq(rows, 1, k))

\* C19: get_messages returns the messages oldest first, and the
\* running_total of the k-th returned row is the sum of token_count of the
\* returned rows 1..k, also when rows share their creation time; where no
\* token_count is negative the running totals never decrease.
C19_RunningTotal ==
    \A o \in AllOps :
        Returned(o, "get_messages", "ok") =>
            LET rows == tx[o].msgs IN
            /\ \A k \in 1 .. Len(rows) :
                   rows[k].running_total = PrefixSum(rows, k)
            /\ \A k \in 2 .. Len(rows) :
                   /\ rows[k - 1].created_at <= rows[k].created_at
                   /\ (\A i \in 1 .. Len(rows) : rows[i].token_count >= 0)
                         => rows[k - 1].running_total <= rows[k].running_total

\* C20: mark_all_read returns the number of the user's notifications that
\* this call changed from unread to read, whatever broadcasts and other
\* mark_all_read calls ran meanwhile: the count it returns is the count of
\* its own transitions, and two calls for one user never both count the
\* same notification.
C20_MarkAllReadCount ==
    /\ \A o \in Ops :
           Returned(o, "mark_all_read", "ok")
               => tx[o].returned = tx[o].transitioned
    /\ \A o1, o2 \in Ops :
           (/\ o1 # o2
            /\ Returned(o1, "mark_all_read", "ok")
            /\ Returned(o2, "mark_all_read", "ok")
            /\ op[o1].user = op[o2].user)
               => \A i \in 1 .. Len(tx[o1].unread) :
                     \A j \in 1 .. Len(tx[o2].unread) :
                         tx[o1].unread[i] # tx[o2].unread[j]

\* The notifications a mark_all_read call selected for flipping.
Selected(o) ==
    {n \in notifications :
        /\ n.user = op[o].user
        /\ \E i \in 1 .. Len(tx[o].unread) : n.by = tx[o].unread[i]}

\* The committed store shows all or none of the selected flips of a
\* mark_all_read that is still running.
NoPartialFlips ==
    \A o \in Ops :
        (op[o].name = "mark_all_read" /\ lease[o] # 0)
            => \/ \A n \in Selected(o) : n.read
               \/ \A n \in Selected(o) : ~n.read

\* C21: every operation runs all its reads and writes in exactly one
\* transaction that spans the time its lease is held.  A call that has
\* executed a statement and still holds its lease is inside its one open
\* transaction (so what it read, it read in the transaction it writes in),
\* and the committed store never shows some but not all of the flips of a
\* mark_all_read in progress.
C21_OneTransaction ==
    /\ \A o \in Ops :
           (lease[o] # 0 /\ pc[o] # FirstStep(op[o].name))
               => (tx[o].open /\ tx[o].begins = 1)
    /\ NoPartialFlips

Broadcasts == {"broadcast_notification", "broadcast_notification_serializable"}
WrittenBy(o) == {n \in notifications : n.by = o}

\* C22: a broadcast that succeeded created exactly one notification for
\* each user it enumerated, all in its one commit and all unread, and
\* returned the number of rows it created; a broadcast that has not
\* committed, or failed, has created none.
C22_BroadcastOnePerUser ==
    /\ [](\A o \in Ops :
            op[o].name \in Broadcasts =>
                IF Done(o) /\ result[o] = "ok"
                THEN /\ tx[o].returned = Cardinality(WrittenBy(o))
                     /\ \A i \in 1 .. Len(tx[o].users) :
                            Cardinality({n \in WrittenBy(o) :
                                            n.user = tx[o].users[i]}) = 1
                     /\ \A n \in WrittenBy(o) :
                            /\ \E i \in 1 .. Len(tx[o].users) :
                                   n.user = tx[o].users[i]
                            /\ n.created_at = tx[o].start
                ELSE WrittenBy(o) = {})
    /\ [][\A o \in Ops :
            (WrittenBy(o) = {} /\ WrittenBy(o)' # {})
                => /\ pc[o] = "bc_insert" /\ pc'[o] = "done"
                   /\ result'[o] = "ok"
                   /\ notifications' = notifications \cup WrittenBy(o)'
                   /\ Cardinality(WrittenBy(o)') = Len(tx[o].users)
                   /\ \A n \in WrittenBy(o)' : ~n.read]_vars

\* C22 witness: one broadcast has committed a notification for each user
\* and returned their number, another has failed after it had begun.
C22_Witness ==
    \E o, p \in Ops :
        /\ op[o].name \in Broadcasts /\ Done(o) /\ result[o] = "ok"
        /\ tx[o].returned = NumUsers
        /\ WrittenFor(o) = Users
        /\ op[p].name \in Broadcasts /\ Done(p) /\ result[p] # "ok"
        /\ tx[p].begins = 1

Polling(o) == op[o].name = "poll_notifications" /\ lease[o] # 0

\* C23: poll_notifications always terminates.  It returns at the first
\* attempt whose query finds a notification of the user newer than since,
\* with exactly the notifications that query found; it never makes more
\* than its budget of attempts, and after the last one without a find it
\* returns the empty list; and every poll that has started ends.
C23_PollTerminates ==
    /\ [](\A o \in Ops :
            op[o].name = "poll_notifications" =>
                /\ tx[o].attempts <= PollAttempts
                /\ (Done(o) /\ result[o] = "ok") =>
                       /\ tx[o].returned = Cardinality(tx[o].rows)
                       /\ \A n \in tx[o].rows :
                              n.user = op[o].user /\ n.created_at > op[o].since
                       /\ tx[o].rows = {} => tx[o].attempts = PollAttempts)
    /\ [][\A o \in Ops :
            (Polling(o) /\ pc[o] = "poll_query" /\ pc'[o] # "poll_query")
                => LET found == NewNotifications(op[o].user, op[o].since) IN
                   \/ result'[o] = "ConnectionError"
                   \/ /\ found # {}
                      /\ tx[o].attempts < PollAttempts
                      /\ Done(o)' /\ result'[o] = "ok"
                      /\ tx'[o].rows = found
                   \/ /\ found = {}
                      /\ tx[o].attempts < PollAttempts
                      /\ pc'[o] = "poll_sleep"
                   \/ /\ tx[o].attempts = PollAttempts
                      /\ Done(o)' /\ result'[o] = "ok"
                      /\ tx'[o].rows = {}]_vars
    /\ \A o \in Ops : Polling(o) ~> Done(o)

\* C23 witness: a poll found nothing at its first attempt, slept, and
\* returned the notification that a broadcast committed meanwhile.
C23_Witness ==
    \E o \in Ops :
        /\ Returned(o, "poll_notifications", "ok")
        /\ tx[o].rows # {}
        /\ tx[o].attempts >= 1 /\ tx[o].attempts < PollAttempts

Listing(o) == op[o].name = "list_notifications"

\* C24: list_notifications never fails because of a payload.  The call ends
\* only by returning or by the connection failing; it reads all of the
\* user's notifications, newest first, and returns every one of them; the
\* row of a notification whose payload has no conversation reference, a
\* malformed one, or one naming a conversation that does not exist when it
\* is looked up has a null conversation_title, any other row the title of
\* the conversation it names.
C24_ListNeverFails ==
    /\ [](\A o \in Ops :
            Listing(o) =>
                /\ result[o] \in {"none", "ok", "ConnectionError"}
                /\ (Done(o) /\ result[o] = "ok") =>
                       /\ tx[o].returned = Len(tx[o].notifs_read)
                       /\ Len(tx[o].results) = Len(tx[o].notifs_read)
                       /\ \A k \in 1 .. Len(tx[o].results) :
                              /\ tx[o].results[k].by = tx[o].notifs_read[k].by
                              /\ tx[o].results[k].payload \in {NoPayload, Malformed, <<0>>}
                                     => tx[o].results[k].conversation_title = <<>>)
    /\ [][\A o \in Ops :
            /\ (Listing(o) /\ pc[o] = "ln_select" /\ pc'[o] = "ln_item")
                   => /\ {tx'[o].notifs_read[k] :
                              k \in 1 .. Len(tx'[o].notifs_read)}
                           = {n \in notifications : n.user = op[o].user}
                      /\ Len(tx'[o].notifs_read)
                           = Cardinality({n \in notifications :
                                             n.user = op[o].user})
                      /\ \A k \in 2 .. Len(tx'[o].notifs_read) :
                             tx'[o].notifs_read[k - 1].created_at
                                 >= tx'[o].notifs_read[k].created_at
            /\ (Listing(o) /\ Len(tx'[o].results) > Len(tx[o].results))
                   => LET row == tx'[o].results[Len(tx'[o].results)] IN
                      row.conversation_title =
                          IF row.payload \in {<<c>> : c \in conversations}
                          THEN row.payload ELSE <<>>]_vars

\* C24 witness: a call has returned a user's two notifications with null
\* titles, one with a malformed reference, the other naming a conversation
\* that does not exist.
C24_Witness ==
    \E o \in Ops :
        /\ Returned(o, "list_notifications", "ok")
        /\ Len(tx[o].results) = 2
        /\ \E k \in 1 .. 2 :
               /\ tx[o].results[k].payload = Malformed
               /\ tx[o].results[k].conversation_title = <<>>
        /\ \E k \in 1 .. 2 :
               /\ tx[o].results[k].payload = <<0>>
               /\ tx[o].results[k].conversation_title = <<>>

\* C25: in every reachable state the user's token_usage is a non-negative
\* integer, whatever add_message, stream_response and delete_conversation
\* calls the service accepted and however they interleaved.
C25_UsageNonNegative == token_usage \in Nat

\* C26: no user, burst, broadcaster or poller task ever ends because a
\* request timed out, the connection failed or a request was answered with
\* an error; a task that saw such a failure comes to the sleep that ends
\* its iteration, and from that sleep it issues a request again.
InBackoff(t) == Task(t).failed /\ Task(t).pc = "sleep"
C26_HarnessResilience ==
    /\ [](\A t \in TaskNames : Task(t).pc # "crashed")
    /\ [][\A t \in TaskNames :
            Task(t).failed /\ ~Task(t)'.failed
                => Task(t).pc = "sleep" /\ Task(t)'.pc = "request"]_vars
    /\ \A t \in TaskNames : Task(t).failed ~> InBackoff(t)
    /\ \A t \in TaskNames :
          InBackoff(t) ~> (Task(t).pc = "request" /\ ~Task(t).failed)

\* Every task is waiting after a failed iteration.
C26_Witness == \A t \in TaskNames : InBackoff(t)

\* C27: the startup health check fails the process only when every one of
\* its attempts has failed to get a 200; a failed attempt with attempts
\* left is followed by another attempt.
C27_FatalOnlyWhenExhausted ==
    Startup.pc = "failed" => Startup.attempt = HealthAttempts

\* C29: once the poller has received notifications, the since it sends
\* with its next poll is the greatest created_at among all the notifications
\* it has received so far.
GreatestCreatedAt(S) ==
    CHOOSE c \in {n.created_at : n \in S} : \A n \in S : n.created_at <= c
C29_SinceIsGreatest ==
    harness.received # {} => harness.since = GreatestCreatedAt(harness.received)

\* C28: a lost update is silent.  An add_message or stream_response call
\* ends in one of three ways only: the connection was lost; the
\* conversation does not exist (not found); or it returns normally, and
\* then the step that returns commits its message rows and raises the
\* conversation's message_count by their number.  No call ends with
\* another error, whatever the other calls did to token_usage meanwhile.
WriterCall(o) == op[o].name \in {"add_message", "stream_response"}
RowsWritten(o) == IF op[o].name = "add_message" THEN 1 ELSE 2
C28_LostUpdateSilent ==
    [][\A o \in Ops :
         (WriterCall(o) /\ InFlight(o) /\ Done(o)') =>
            LET c == op[o].conv
                k == RowsWritten(o)
            IN  \/ /\ result'[o] = "ConnectionError"
                   /\ lease[o] \notin connOpen'
                \/ /\ result'[o] = "ForeignKeyViolationError"
                   /\ c \notin conversations
                \/ /\ result'[o] = "ok"
                   /\ c \in conversations'
                   /\ Len(messages'[c]) = Len(messages[c]) + k
                   /\ message_count'[c] = message_count[c] + k
                   /\ \A i \in 1 .. k :
                          messages'[c][Len(messages[c]) + i].created_at
                              = tx[o].start]_vars

\* An add_message and a stream_response that read the same token_usage have
\* both returned normally with their rows committed, and the one's tokens
\* are missing from token_usage.
C28_Witness ==
    \E o1, o2 \in Ops :
        /\ Returned(o1, "add_message", "ok")
        /\ Returned(o2, "stream_response", "ok")
        /\ tx[o1].current = tx[o2].current
        /\ op[o1].token_count > 0
        /\ Len(RowsOf(o1)) = 1
        /\ Len(RowsOf(o2)) = 2
        /\ token_usage < AllTokens

\* C30: the life of a notification.  Every notification of the store is
\* still there after every step, the same in every column, or with read
\* turned from false to true by an UPDATE of a mark_all_read call for its
\* user; a notification that is new after a step is an unread row of a
\* broadcast_notification or broadcast_notification_serializable call that
\* returns with that step.
NotificationId(n) == <<n.by, n.user>>
KeptOrMarkedRead ==
    \A n \in notifications :
        \/ n \in notifications'
        \/ /\ ~n.read
           /\ [n EXCEPT !.read = TRUE] \in notifications'
           /\ \E o \in Ops : /\ op[o].name = "mark_all_read"
                             /\ pc[o] = "mr_update"
                             /\ op[o].user = n.user
CreatedByBroadcast ==
    \A m \in notifications' :
        (\A n \in notifications : NotificationId(n) # NotificationId(m))
            => /\ ~m.read
               /\ m.by \in Ops
               /\ op[m.by].name \in {"broadcast_notification",
                                      "broadcast_notification_serializable"}
               /\ InFlight(m.by)
               /\ Done(m.by)'
               /\ result'[m.by] = "ok"
C30_NotificationLifecycle ==
    /\ [](\A n, m \in notifications :
              NotificationId(n) = NotificationId(m) => n = m)
    /\ [][KeptOrMarkedRead /\ CreatedByBroadcast]_vars

\* A notification created by a broadcast of this run has been marked read
\* while the other notification of that broadcast is still unread.
C30_Witness ==
    \E n, m \in notifications :
        /\ n.by \in Ops /\ n.read
        /\ m.by = n.by /\ ~m.read

\* C31: in every committed state every existing conversation's
\* message_count is the number of its message rows, while add_message,
\* stream_response and delete_conversation calls interleave and fail.
C31_CountIsRowCount ==
    \A c \in conversations : message_count[c] = Len(messages[c])

\* An add_message and a stream_response that overlapped on one conversation
\* have both committed: three rows more, message_count three higher.
C31_Witness ==
    \E o1, o2 \in Ops :
        /\ Returned(o1, "add_message", "ok")
        /\ Returned(o2, "stream_response", "ok")
        /\ op[o1].conv = op[o2].conv
        /\ op[o1].conv \in conversations
        /\ hist.overlapped
        /\ message_count[op[o1].conv] = hist.initial_count[op[o1].conv] + 3
        /\ Len(messages[op[o1].conv]) = hist.initial_count[op[o1].conv] + 3

\* C32: deadlock freedom.  While a call is under way some call can take
\* its next step: the calls never all wait for one another's row locks or
\* leases; and every call that was started returns or fails in the end.
C32_DeadlockFree ==
    /\ []((\E o \in Streamers : InFlight(o))
              => \E o \in Streamers : ENABLED Resumes(o))
    /\ \A o \in Streamers : InFlight(o) ~> Done(o)

\* One writer holds its lease and waits for a row lock, the other writer
\* holds row locks in an open transaction, and the third call waits for a
\* lease.
WaitsForRowLock(o) ==
    /\ lease[o] # 0
    /\ ~ENABLED Resumes(o)
C32_Witness ==
    \E o, p \in Ops :
        /\ WaitsForRowLock(o)
        /\ rowLocks[p] # {}
        /\ pc[PoolMax + 1] = "waiting"

\* C33: the poller skips no notification.  Its polls ask for created_at >
\* since and since never decreases, so a committed notification of the
\* polled user that is not newer than since will be returned by no later
\* poll: every such notification has been received already.
ReceivedIds == {NotificationId(n) : n \in harness.received}
C33_NoNotificationSkipped ==
    \A n \in notifications :
        (n.user = PolledUser /\ n.created_at <= harness.since)
            => NotificationId(n) \in ReceivedIds

\* C34: an HTTP request holds at most one lease at a time.  The lookup of
\* the unread-count middleware is started, waits for and holds its lease
\* only when the handler's call is over and its lease released; no call
\* that holds a lease is given another; and whatever becomes of the
\* lookup, the response carries the handler's status and body.
C34_OneLeasePerRequest ==
    /\ [](\A o \in Requests :
              (pc[Lookup(o)] # "idle" \/ lease[Lookup(o)] # 0)
                  => (Done(o) /\ lease[o] = 0))
    /\ [][\A o \in AllOps :
              lease[o] # 0 => lease'[o] \in {0, lease[o]}]_vars
    /\ [](\A o \in Requests :
              /\ Response(o).status = HttpStatus(o)
              /\ Response(o).body = result[o])

\* The lookup of a request whose handler answered 200 has failed, while
\* the lookup of another request holds a lease.
C34_Witness ==
    \E o, p \in Requests :
        /\ HttpStatus(o) = 200
        /\ Done(Lookup(o))
        /\ result[Lookup(o)] = "ConnectionError"
        /\ Response(o).unread_count = <<>>
        /\ lease[Lookup(p)] # 0

\* C35: the bursts of a burst user do not overlap.  When the task is about
\* to create the conversation of a burst, no add_message request of an
\* earlier burst is still under way; so the user never has more than
\* BURST_CONCURRENCY add_message requests in flight.
C35_BurstsDoNotOverlap ==
    /\ (Task("worker").fn = "simulate_user_burst"
           /\ Task("worker").pc = "request") => harness.abandoned = 0
    /\ harness.gathered + harness.abandoned <= BURST_CONCURRENCY

\* C36: referential integrity.  In every committed state every message
\* belongs to a conversation that exists (a conversation that is gone has
\* no message left), and every notification belongs to a user that
\* exists; conversations belong to the default user, who is never deleted.
C36_ReferentialIntegrity ==
    /\ \A c \in Convs \ conversations : messages[c] = <<>>
    /\ \A n \in notifications : n.user \in Users
    /\ DEFAULT_USER_ID \in Users

\* A writer and a delete_conversation of the same conversation overlapped
\* and are both over: the conversation is gone, and the writer either
\* committed before the delete or was refused.
C36_Witness ==
    \E o1, o2 \in Ops :
        /\ Returned(o1, "delete_conversation", "true")
        /\ WriterCall(o2) /\ Done(o2)
        /\ op[o1].conv = op[o2].conv
        /\ tx[o1].start < tx[o2].end \/ result[o2] = "ForeignKeyViolationError"
        /\ hist.overlapped
        /\ op[o1].conv \notin conversations

\* C37: startup ordering.  Until wait_for_app has seen a healthy response
\* no task exists and nothing but the health probe has been requested: no
\* burst request is under way, nothing was broadcast, nothing polled.  The
\* tasks are created by the step that sees the healthy response, and a
\* health check that failed stays failed: no task ever runs.
NoLoad ==
    /\ \A t \in TaskNames : Task(t).pc = "not_started"
    /\ harness.gathered = 0 /\ harness.abandoned = 0
    /\ harness.since = SinceNone /\ harness.received = {}
    /\ now = 0
C37_StartupOrdering ==
    /\ [](Startup.pc # "healthy" => NoLoad)
    /\ [][Startup.pc = "failed" => Startup'.pc = "failed"]_vars
    /\ [][(NoLoad /\ ~NoLoad') =>
              (Startup.pc = "attempt" /\ Startup'.pc = "healthy")]_vars

\* The health check succeeded after a failed attempt and every task is at
\* work, the broadcaster having broadcast and the poller received.
C37_Witness ==
    /\ Startup.pc = "healthy"
    /\ Startup.attempt >= 1
    /\ \A t \in TaskNames : Task(t).pc # "not_started"
    /\ now >= 1
    /\ harness.received # {}

============================================================================
